---- MODULE Spec2Model ----
(***************************************************************************)
(* Constitutional rule inheritance resolver (rule-resolver): the file      *)
(* system of rule documents, resolveInheritanceChain, resolveRules,        *)
(* getEffectiveRules and validateRules, translated from the build output   *)
(* of the resolver (httpTransportWrapper.js, lines 439-577); and the       *)
(* session store (constitution.ts) over the rules loader                   *)
(* (constitutionalRules.ts); the hot-reload watcher                        *)
(* (ConstitutionalRulesWatcher in generate-rules-from-docs.ts) over both;  *)
(* the validate command (validateConstitutionalRules and main); the        *)
(* loader's validateConstitutionalRules; and the interaction history of    *)
(* state.js (addToHistory, saveHistory) with its file writes in flight.    *)
(*                                                                         *)
(* Absolute document paths and rule ids are atoms: a path never contains a *)
(* rule id or the word "non-existent", and no rule id is the name of a     *)
(* member of Object.prototype ("constructor", "toString", ...) or an       *)
(* integer-like key, for which the plain-object lookups and the key order  *)
(* of the JavaScript source behave differently.                            *)
(***************************************************************************)
EXTENDS Integers, Sequences, FiniteSets, TLC

\* ------------------------------------------------------------------ bounds
Paths == {"A", "B", "C", "D"}
RuleIds == {"r1", "r2"}
SortIds == <<"s1", "s2", "s3", "s4", "s5", "s6", "s7">>
MaxEdits == 3
MaxRuleEdits == 3
MaxRules == 5

\* The depth a descent can reach before the visited set must repeat a path;
\* a deeper recursion stands for the JavaScript call stack overflowing.
StackLimit == Cardinality(Paths) + 1

\* fs: the rule documents on disk; op, arg, res: the last call and its
\* outcome; previous: the outcome of the call before it when that was the same
\* resolveRules call on the same files; edits: the edits made so far.
\* constitutionMap, now: the session store and the clock it reads; hist: for
\* each session entry, the list it was created with and the strings appended
\* to it since. watch: the ConstitutionalRulesWatcher and the timeouts it has
\* pending; seen: what has been observed of it - the time of the last change
\* notification, the notifications, the bursts of notifications (a burst
\* ends when the debounce delay passes without one or stop() cancels its
\* timeout), the runs of reload, the timeouts stop() cancelled and the calls
\* of start().
VARIABLES fs, op, arg, res, edits, previous, constitutionMap, now, hist,
          watch, seen, state
vars == <<fs, op, arg, res, edits, previous, constitutionMap, now, hist,
          watch, seen, state>>

\* ------------------------------------------------------------ file system
Missing == [kind |-> "missing", extends |-> <<>>, rules |-> <<>>, overrides |-> <<>>]
Invalid == [kind |-> "invalid", extends |-> <<>>, rules |-> <<>>, overrides |-> <<>>]
Doc(e, r, o) == [kind |-> "doc", extends |-> e, rules |-> r, overrides |-> o]
EmptyDoc == Doc(<<>>, <<>>, <<>>)

\* The ids of a document's `rules` (or `overrides`) entries, and the value
\* stored under an id: a JSON object read in key order.
Keys(entries) == {entries[i].id : i \in 1..Len(entries)}
ValueOf(entries, id) ==
    entries[CHOOSE i \in 1..Len(entries) : entries[i].id = id].value
Entry(id, value) == [id |-> id, value |-> value]

\* ---------------------------------------------------------------- results
Thrown(kind, path) == [kind |-> kind, path |-> path]
IsThrown(r) == r.kind # "ok"

\* loadRuleSet with every failure swallowed into an empty document.
loadRuleSet_SwallowsErrors(files, filePath) ==
    IF files[filePath].kind # "doc"
    THEN [kind |-> "ok", path |-> filePath, doc |-> EmptyDoc]
    ELSE [kind |-> "ok", path |-> filePath, doc |-> files[filePath]]

\* loadRuleSet: throws when the file does not exist or is not JSON.
loadRuleSet(files, filePath) ==
    IF files[filePath].kind = "missing"
    THEN Thrown("notfound", filePath)
    ELSE IF files[filePath].kind = "invalid"
    THEN Thrown("invalid", filePath)
    ELSE [kind |-> "ok", path |-> filePath, doc |-> files[filePath]]

RECURSIVE resolveInheritanceChain(_, _, _, _)
RECURSIVE resolveParents(_, _, _, _, _, _)

\* The for-loop over ruleSet.extends with each parent's chain put before the
\* chains of the parents listed ahead of it.
resolveParents_Reversed(files, parents, i, visited, chain, depth) ==
    IF i > Len(parents)
    THEN [kind |-> "ok", path |-> "", chain |-> chain]
    ELSE LET parentChain ==
                 resolveInheritanceChain(files, parents[i], visited, depth)
         IN IF IsThrown(parentChain)
            THEN parentChain
            ELSE resolveParents(files, parents, i + 1, visited,
                                parentChain.chain \o chain, depth)

\* The for-loop over ruleSet.extends: each parent is resolved with a copy of
\* the visited set; the first exception ends the whole resolution.
resolveParents(files, parents, i, visited, chain, depth) ==
    IF i > Len(parents)
    THEN [kind |-> "ok", path |-> "", chain |-> chain]
    ELSE LET parentChain ==
                 resolveInheritanceChain(files, parents[i], visited, depth)
         IN IF IsThrown(parentChain)
            THEN parentChain
            ELSE resolveParents(files, parents, i + 1, visited,
                                chain \o parentChain.chain, depth)

\* resolveInheritanceChain without the visited check.
resolveInheritanceChain_NoVisited(files, ruleSetPath, visited, depth) ==
    IF depth = 0
    THEN Thrown("overflow", ruleSetPath)
    ELSE LET ruleSet == loadRuleSet(files, ruleSetPath)
         IN IF IsThrown(ruleSet)
            THEN ruleSet
            ELSE IF Len(ruleSet.doc.extends) = 0
            THEN [kind |-> "ok", path |-> "", chain |-> <<ruleSetPath>>]
            ELSE LET parents == resolveParents(files, ruleSet.doc.extends, 1,
                                               visited \cup {ruleSetPath},
                                               <<>>, depth - 1)
                 IN IF IsThrown(parents)
                    THEN parents
                    ELSE [parents EXCEPT !.chain = Append(@, ruleSetPath)]

\* resolveInheritanceChain: the chain of documents, most basic first, or the
\* exception thrown (a revisited path, an unreadable document).
resolveInheritanceChain(files, ruleSetPath, visited, depth) ==
    IF depth = 0
    THEN Thrown("overflow", ruleSetPath)
    ELSE IF ruleSetPath \in visited
    THEN Thrown("cycle", ruleSetPath)
    ELSE LET ruleSet == loadRuleSet(files, ruleSetPath)
         IN IF IsThrown(ruleSet)
            THEN ruleSet
            ELSE IF Len(ruleSet.doc.extends) = 0
            THEN [kind |-> "ok", path |-> "", chain |-> <<ruleSetPath>>]
            ELSE LET parents == resolveParents(files, ruleSet.doc.extends, 1,
                                               visited \cup {ruleSetPath},
                                               <<>>, depth - 1)
                 IN IF IsThrown(parents)
                    THEN parents
                    ELSE [parents EXCEPT !.chain = Append(@, ruleSetPath)]

\* The top-level call with a visited set kept from one call to the next: the
\* documents of the chain the call before it resolved.
Chain_SharedVisited(files, ruleSetPath) ==
    resolveInheritanceChain(
        files, ruleSetPath,
        IF op = "resolveRules" /\ res.kind = "ok"
        THEN {res.chain[i] : i \in 1..Len(res.chain)} ELSE {},
        StackLimit)

\* The top-level call of resolveRules: a fresh visited set.
Chain(files, ruleSetPath) ==
    resolveInheritanceChain(files, ruleSetPath, {}, StackLimit)

\* ------------------------------------------------------------------ merge
\* A source entry is filePath or `${filePath} (override)`.
\* The source that never carries the tag.
Source_Untagged(filePath, override) == [file |-> filePath, override |-> FALSE]
Source(filePath, override) == [file |-> filePath, override |-> override]

\* A message is a template with the values interpolated into it:
\*   "Rule redefined in ${filePath}", "Override for non-existent rule in
\*   ${filePath}", "Duplicate rule ID: ${ruleId}", "Rule ${ruleId} missing
\*   required field: <field>".
Msg(t, filePath, ruleId, field) ==
    [t |-> t, file |-> filePath, ruleId |-> ruleId, field |-> field]

\* { ...a, ...b } with a's values winning.
Spread_LeftWins(a, b) ==
    [f \in DOMAIN a \cup DOMAIN b |-> IF f \in DOMAIN a THEN a[f] ELSE b[f]]

\* { ...a, ...b }: the own fields of both, b's values winning.
Spread(a, b) ==
    [f \in DOMAIN a \cup DOMAIN b |-> IF f \in DOMAIN b THEN b[f] ELSE a[f]]

\* obj[key] = value on a plain object kept as a function.
Put(obj, key, value) ==
    [k \in DOMAIN obj \cup {key} |-> IF k = key THEN value ELSE obj[k]]

EmptyObj == [k \in {} |-> <<>>]
EmptyAcc == [order |-> <<>>, rules |-> EmptyObj, sources |-> EmptyObj,
             conflicts |-> <<>>]

\* One iteration of the loop over Object.entries(ruleSet.rules), merging
\* into the earlier definition instead of replacing it.
mergeRule_KeepsOldFields(acc, filePath, ruleId, rule) ==
    LET exists == ruleId \in DOMAIN acc.rules
    IN [order |-> IF exists THEN acc.order ELSE Append(acc.order, ruleId),
        rules |-> Put(acc.rules, ruleId,
                      IF exists THEN Spread(acc.rules[ruleId], rule) ELSE rule),
        sources |-> Put(acc.sources, ruleId,
                        Append(IF exists THEN acc.sources[ruleId] ELSE <<>>,
                               Source(filePath, FALSE))),
        conflicts |->
            IF exists
            THEN Append(acc.conflicts,
                        [ruleId |-> ruleId,
                         conflict |-> Msg("redefined", filePath, "", ""),
                         sources |-> <<acc.sources[ruleId][1],
                                       Source(filePath, FALSE)>>])
            ELSE acc.conflicts]

\* One iteration of the loop over Object.entries(ruleSet.rules).
mergeRule(acc, filePath, ruleId, rule) ==
    LET exists == ruleId \in DOMAIN acc.rules
    IN [order |-> IF exists THEN acc.order ELSE Append(acc.order, ruleId),
        rules |-> Put(acc.rules, ruleId, rule),
        sources |-> Put(acc.sources, ruleId,
                        Append(IF exists THEN acc.sources[ruleId] ELSE <<>>,
                               Source(filePath, FALSE))),
        conflicts |->
            IF exists
            THEN Append(acc.conflicts,
                        [ruleId |-> ruleId,
                         conflict |-> Msg("redefined", filePath, "", ""),
                         sources |-> <<acc.sources[ruleId][1],
                                       Source(filePath, FALSE)>>])
            ELSE acc.conflicts]

\* One iteration of the loop over Object.entries(ruleSet.overrides), creating
\* the rule from the patch when the target is absent.
applyOverride_CreatesTarget(acc, filePath, ruleId, override) ==
    IF ruleId \notin DOMAIN acc.rules
    THEN [acc EXCEPT
            !.order = Append(@, ruleId),
            !.rules = Put(@, ruleId, override),
            !.sources = Put(@, ruleId, <<Source(filePath, TRUE)>>)]
    ELSE [acc EXCEPT
            !.rules = Put(@, ruleId, Spread(acc.rules[ruleId], override)),
            !.sources = Put(@, ruleId,
                            Append(acc.sources[ruleId], Source(filePath, TRUE)))]

\* One iteration of the loop over Object.entries(ruleSet.overrides).
applyOverride(acc, filePath, ruleId, override) ==
    IF ruleId \notin DOMAIN acc.rules
    THEN [acc EXCEPT
            !.conflicts =
                Append(@, [ruleId |-> ruleId,
                           conflict |-> Msg("non-existent", filePath, "", ""),
                           sources |-> <<Source(filePath, FALSE)>>])]
    ELSE [acc EXCEPT
            !.rules = Put(@, ruleId, Spread(acc.rules[ruleId], override)),
            !.sources = Put(@, ruleId,
                            Append(acc.sources[ruleId], Source(filePath, TRUE)))]

RECURSIVE mergeRules(_, _, _, _)
mergeRules(acc, filePath, entries, i) ==
    IF i > Len(entries)
    THEN acc
    ELSE mergeRules(mergeRule(acc, filePath, entries[i].id, entries[i].value),
                    filePath, entries, i + 1)

RECURSIVE applyOverrides(_, _, _, _)
applyOverrides(acc, filePath, entries, i) ==
    IF i > Len(entries)
    THEN acc
    ELSE applyOverrides(
             applyOverride(acc, filePath, entries[i].id, entries[i].value),
             filePath, entries, i + 1)

\* The body of the loop over the chain, with the overrides applied before
\* the document's own rules are merged.
mergeFile_OverridesFirst(acc, filePath, ruleSet) ==
    mergeRules(applyOverrides(acc, filePath, ruleSet.overrides, 1),
               filePath, ruleSet.rules, 1)

\* The body of the loop over the chain: the document's rules, then its
\* overrides.
mergeFile(acc, filePath, ruleSet) ==
    applyOverrides(mergeRules(acc, filePath, ruleSet.rules, 1),
                   filePath, ruleSet.overrides, 1)

RECURSIVE mergeChain(_, _, _, _)
mergeChain(files, chain, i, acc) ==
    IF i > Len(chain)
    THEN acc
    ELSE LET ruleSet == loadRuleSet(files, chain[i])
         IN IF IsThrown(ruleSet)
            THEN ruleSet
            ELSE mergeChain(files, chain, i + 1,
                            mergeFile(acc, chain[i], ruleSet.doc))

\* resolveRules: {rules, sources, conflicts}, or the exception thrown. The
\* key order of `rules` is kept in order; chain is the local of line 477.
resolveRules(files, ruleSetPath) ==
    LET chain == Chain(files, ruleSetPath)
    IN IF IsThrown(chain)
       THEN chain
       ELSE LET acc == mergeChain(files, chain.chain, 1, EmptyAcc)
            IN IF "kind" \in DOMAIN acc
               THEN acc
               ELSE [kind |-> "ok", path |-> "", chain |-> chain.chain,
                     order |-> acc.order, rules |-> acc.rules,
                     sources |-> acc.sources, conflicts |-> acc.conflicts]

\* ------------------------------------------------------- effective rules
Severities == <<"CRITICAL", "HIGH", "MEDIUM", "LOW">>
\* severityOrder[rule.severity]; undefined for any other value.
HasRank(rule) ==
    "severity" \in DOMAIN rule /\
    \E k \in 1..Len(Severities) : Severities[k] = rule.severity
severityOrder(rule) ==
    (CHOOSE k \in 1..Len(Severities) : Severities[k] = rule.severity) - 1

\* rule => rule.enabled
IsEnabled(rule) == "enabled" \in DOMAIN rule /\ rule.enabled = TRUE

\* !rule.<field> for a text field: absent or the empty string.
IsFalsy(rule, field) == field \notin DOMAIN rule \/ rule[field] = ""

RECURSIVE filterEnabled(_, _, _)
\* The filter keeping every rule, enabled or not.
filterEnabled_KeepsAll(rules, order, i) == SubSeq(order, i, Len(order))

\* Object.values(rules).filter(rule => rule.enabled), as the rules' keys.
filterEnabled(rules, order, i) ==
    IF i > Len(order)
    THEN <<>>
    ELSE (IF IsEnabled(rules[order[i]]) THEN <<order[i]>> ELSE <<>>)
         \o filterEnabled(rules, order, i + 1)

\* The place of x in a sorted run, before the elements of equal rank.
insertSorted_BeforeEqual(rules, sorted, x) ==
    LET after == {j \in 1..Len(sorted) :
                      severityOrder(rules[sorted[j]]) < severityOrder(rules[x])}
        n == Cardinality(after)
    IN SubSeq(sorted, 1, n) \o <<x>> \o SubSeq(sorted, n + 1, Len(sorted))

\* The place of x in a sorted run: after every element that does not compare
\* greater than it (Array.prototype.sort is stable).
insertSorted(rules, sorted, x) ==
    LET after == {j \in 1..Len(sorted) :
                      severityOrder(rules[sorted[j]]) <= severityOrder(rules[x])}
        n == Cardinality(after)
    IN SubSeq(sorted, 1, n) \o <<x>> \o SubSeq(sorted, n + 1, Len(sorted))

RECURSIVE sortBySeverity(_, _, _, _)
sortBySeverity(rules, ids, i, sorted) ==
    IF i > Len(ids)
    THEN sorted
    ELSE sortBySeverity(rules, ids, i + 1, insertSorted(rules, sorted, ids[i]))

Orderings(ids) ==
    {s \in [1..Len(ids) -> {ids[i] : i \in 1..Len(ids)}] :
        \A i, j \in 1..Len(ids) : i # j => s[i] # s[j]}

\* The orders .sort(comparator) may return: the stable sorted order when the
\* comparator is consistent; when a compared severity has no rank the
\* comparator returns NaN and the order is whatever the engine produces.
sortOutcomes(rules, ids) ==
    IF \A i \in 1..Len(ids) : HasRank(rules[ids[i]]) \/ Len(ids) = 1
    THEN {sortBySeverity(rules, ids, 1, <<>>)}
    ELSE Orderings(ids)

\* getEffectiveRules: the results it may return, each the keys of the
\* returned rule objects in order and the objects themselves.
getEffectiveRules(files, ruleSetPath) ==
    LET r == resolveRules(files, ruleSetPath)
    IN IF IsThrown(r)
       THEN {r}
       ELSE {[kind |-> "ok", path |-> "", ids |-> ids,
              rules |-> [i \in 1..Len(ids) |-> r.rules[ids[i]]]] :
                ids \in sortOutcomes(r.rules, filterEnabled(r.rules, r.order, 1))}

\* ------------------------------------------------------------- validation
RECURSIVE conflictErrors(_, _)
\* conflictErrors with the test for a dangling override never matching.
conflictErrors_NoneMatch(conflicts, i) == <<>>

\* The conflicts whose message includes 'non-existent' become errors.
conflictErrors(conflicts, i) ==
    IF i > Len(conflicts)
    THEN <<>>
    ELSE (IF conflicts[i].conflict.t = "non-existent"
          THEN <<conflicts[i].conflict>> ELSE <<>>)
         \o conflictErrors(conflicts, i + 1)

RECURSIVE conflictWarnings(_, _)
conflictWarnings(conflicts, i) ==
    IF i > Len(conflicts)
    THEN <<>>
    ELSE (IF conflicts[i].conflict.t = "non-existent"
          THEN <<>> ELSE <<conflicts[i].conflict>>)
         \o conflictWarnings(conflicts, i + 1)

RECURSIVE duplicateErrors(_, _)
duplicateErrors(order, i) ==
    IF i > Len(order)
    THEN <<>>
    ELSE (IF order[i] \in {order[j] : j \in 1..(i - 1)}
          THEN <<Msg("duplicate", "", order[i], "")>> ELSE <<>>)
         \o duplicateErrors(order, i + 1)

\* The required-field checks of one rule.
fieldErrors(ruleId, rule) ==
    (IF IsFalsy(rule, "name")
     THEN <<Msg("missing", "", ruleId, "name")>> ELSE <<>>)
    \o (IF IsFalsy(rule, "description")
        THEN <<Msg("missing", "", ruleId, "description")>> ELSE <<>>)
    \o (IF IsFalsy(rule, "severity")
        THEN <<Msg("missing", "", ruleId, "severity")>> ELSE <<>>)

RECURSIVE requiredFieldErrors(_, _, _)
requiredFieldErrors(rules, order, i) ==
    IF i > Len(order)
    THEN <<>>
    ELSE fieldErrors(order[i], rules[order[i]])
         \o requiredFieldErrors(rules, order, i + 1)

\* validateRules with redefinitions counted as errors.
validateRules_WarningsBlock(files, ruleSetPath) ==
    LET r == resolveRules(files, ruleSetPath)
    IN IF IsThrown(r)
       THEN r
       ELSE LET errors == conflictErrors(r.conflicts, 1)
                          \o duplicateErrors(r.order, 1)
                          \o requiredFieldErrors(r.rules, r.order, 1)
                warnings == conflictWarnings(r.conflicts, 1)
            IN [kind |-> "ok", path |-> "",
                valid |-> (Len(errors) = 0 /\ Len(warnings) = 0),
                errors |-> errors, warnings |-> warnings]

\* validateRules: {valid, errors, warnings}, or the exception thrown.
validateRules(files, ruleSetPath) ==
    LET r == resolveRules(files, ruleSetPath)
    IN IF IsThrown(r)
       THEN r
       ELSE LET errors == conflictErrors(r.conflicts, 1)
                          \o duplicateErrors(r.order, 1)
                          \o requiredFieldErrors(r.rules, r.order, 1)
                warnings == conflictWarnings(r.conflicts, 1)
            IN [kind |-> "ok", path |-> "", valid |-> (Len(errors) = 0),
                errors |-> errors, warnings |-> warnings]

\* ------------------------------------------- the extends graph, as a graph
\* The parents a readable document names, and the paths reachable from a
\* path through `extends` (the path itself included).
ParentsOf(files, p) ==
    IF files[p].kind = "doc"
    THEN {files[p].extends[i] : i \in 1..Len(files[p].extends)}
    ELSE {}

RECURSIVE Closure(_, _)
Closure(files, S) ==
    LET T == S \cup UNION {ParentsOf(files, p) : p \in S}
    IN IF T = S THEN S ELSE Closure(files, T)

ReachFrom(files, p) == Closure(files, {p})
OnCycle(files, p) ==
    p \in UNION {ReachFrom(files, q) : q \in ParentsOf(files, p)}
Loadable(files, p) == files[p].kind = "doc"

\* ----------------------------------------------------------- operations
\* A call of one exported function (or of the chain resolution of line 477)
\* on the files as they are: op, arg and res hold the call and its outcome.
NoCall == [kind |-> "none"]
StoreIdle == UNCHANGED <<constitutionMap, now, hist, watch, seen, state>>

CallResolveChain(p) ==
    /\ op' = "resolveInheritanceChain"
    /\ arg' = p
    /\ res' = Chain(fs, p)
    /\ previous' = NoCall
    /\ UNCHANGED <<fs, edits>>
    /\ StoreIdle

CallResolveRules(p) ==
    /\ op' = "resolveRules"
    /\ arg' = p
    /\ res' = resolveRules(fs, p)
    /\ previous' = (IF op = "resolveRules" /\ arg = p THEN res ELSE NoCall)
    /\ UNCHANGED <<fs, edits>>
    /\ StoreIdle

CallGetEffectiveRules(p) ==
    /\ op' = "getEffectiveRules"
    /\ arg' = p
    /\ res' \in getEffectiveRules(fs, p)
    /\ previous' = NoCall
    /\ UNCHANGED <<fs, edits>>
    /\ StoreIdle

CallValidateRules(p) ==
    /\ op' = "validateRules"
    /\ arg' = p
    /\ res' = validateRules(fs, p)
    /\ previous' = NoCall
    /\ UNCHANGED <<fs, edits>>
    /\ StoreIdle

Calls == \E p \in Paths :
    \/ CallResolveChain(p)
    \/ CallResolveRules(p)
    \/ CallGetEffectiveRules(p)
    \/ CallValidateRules(p)

\* Edits of the rule documents by their author, between calls.
Edited ==
    /\ edits' = edits + 1
    /\ op' = "none"
    /\ arg' = ""
    /\ res' = NoCall
    /\ previous' = NoCall
    /\ StoreIdle

AddParent(p, q) ==
    /\ fs[p].kind = "doc"
    /\ fs' = [fs EXCEPT ![p].extends = Append(@, q)]
    /\ Edited

DeleteFile(p) ==
    /\ fs[p].kind # "missing"
    /\ fs' = [fs EXCEPT ![p] = Missing]
    /\ Edited

CorruptFile(p) ==
    /\ fs[p].kind = "doc"
    /\ fs' = [fs EXCEPT ![p] = Invalid]
    /\ Edited

\* ------------------------------------------------- the extends graph
\* null, of a path and of a timeout handle.
NoPath == "null"
NoTimer == -1

\* new ConstitutionalRulesWatcher(): its fields, with `parents` the watchers
\* watchInheritanceChain creates (no field holds them) and `timers` the due
\* times of the timeouts pending in the runtime.
NewWatcher ==
    [watcher |-> NoPath, debounceTimer |-> NoTimer, currentRulesPath |-> NoPath,
     isReloading |-> FALSE, parents |-> <<>>, timers |-> {}]

NothingSeen ==
    [lastNote |-> NoTimer, notes |-> 0, bursts |-> 0, attempts |-> 0,
     cancelled |-> 0, starts |-> 0]

\* Before the first call: no session entry, the clock at its origin, the
\* watcher constructed and not started.
\* state.js when the module is loaded: history = new Map(), the history
\* file not written yet, no fs.writeFile in flight, no save started.
NewState ==
    [history |-> <<>>, file |-> [kind |-> "absent"], writes |-> {},
     started |-> 0]

NoCallYet ==
    /\ op = "none"
    /\ arg = ""
    /\ res = NoCall
    /\ previous = NoCall
    /\ edits = 0
    /\ constitutionMap = <<>>
    /\ now = 0
    /\ hist = <<>>
    /\ watch = NewWatcher
    /\ seen = NothingSeen
    /\ state = NewState

Init ==
    /\ fs = [p \in Paths |-> EmptyDoc]
    /\ NoCallYet

EditGraph ==
    /\ edits < MaxEdits
    /\ \E p \in Paths :
          \/ \E q \in Paths : AddParent(p, q)
          \/ DeleteFile(p)
          \/ CorruptFile(p)

Next == EditGraph \/ Calls

Spec == Init /\ [][Next]_vars

\* ------------------------------------------------- the merge of a chain
\* Rule definitions and override patches the documents are edited with.
\* RuleFull and RuleNoCategory are valid rules; RuleBadSeverity has a
\* severity outside the four literals; RuleDisabled is written disabled. PatchDisable disables its target;
\* PatchBlank empties its name and severity.
RuleFull ==
    [name |-> "n1", description |-> "d1", category |-> "c1",
     severity |-> "HIGH", enabled |-> TRUE]
RuleNoCategory ==
    [name |-> "n2", description |-> "d2", severity |-> "CRITICAL",
     enabled |-> TRUE]
RuleBadSeverity ==
    [name |-> "n3", description |-> "d3", severity |-> "URGENT",
     enabled |-> TRUE]
RuleDisabled ==
    [name |-> "n4", description |-> "d4", category |-> "c4",
     severity |-> "LOW", enabled |-> FALSE]
RuleVariants == {RuleFull, RuleNoCategory, RuleBadSeverity, RuleDisabled}

PatchDisable == [enabled |-> FALSE]
PatchBlank == [name |-> "", severity |-> ""]
PatchVariants == {PatchDisable, PatchBlank}

\* Writing value under id into a JSON object: in place when the key is
\* there, as the last key otherwise.
SetEntry(entries, id, value) ==
    IF id \in Keys(entries)
    THEN [i \in 1..Len(entries) |->
            IF entries[i].id = id THEN Entry(id, value) ELSE entries[i]]
    ELSE Append(entries, Entry(id, value))

DefineRule(p, id, rule) ==
    /\ fs[p].kind = "doc"
    /\ fs' = [fs EXCEPT ![p].rules = SetEntry(@, id, rule)]
    /\ Edited

SetOverride(p, id, patch) ==
    /\ fs[p].kind = "doc"
    /\ fs' = [fs EXCEPT ![p].overrides = SetEntry(@, id, patch)]
    /\ Edited

\* The documents of the project: A is the project document; B, and in the
\* second layout C, are its parents in that order. Only the documents of
\* A's chain are edited.
InitMerge ==
    /\ \E parents \in {<<"B">>, <<"B", "C">>} :
          fs = [p \in Paths |->
                  IF p = "A" THEN Doc(parents, <<>>, <<>>) ELSE EmptyDoc]
    /\ NoCallYet

EditRules ==
    /\ edits < MaxRuleEdits
    /\ \E p \in ReachFrom(fs, "A"), id \in RuleIds :
          \/ \E rule \in RuleVariants : DefineRule(p, id, rule)
          \/ \E patch \in PatchVariants : SetOverride(p, id, patch)

\* The calls resolve the project document.
MergeCalls == \E p \in {"A"} :
    \/ CallResolveRules(p)
    \/ CallGetEffectiveRules(p)
    \/ CallValidateRules(p)

NextMerge == EditRules \/ MergeCalls

SpecMerge == InitMerge /\ [][NextMerge]_vars

\* ---------------------------------------------- two parents, one ancestor
\* The project document A extends B and C; B extends the base D, and in the
\* second layout C extends D as well (a diamond). D defines a rule; the
\* documents above it are edited.
InitDiamond ==
    /\ \E parentsOfC \in {<<>>, <<"D">>} :
          fs = [p \in Paths |->
                  IF p = "A" THEN Doc(<<"B", "C">>, <<>>, <<>>)
                  ELSE IF p = "B" THEN Doc(<<"D">>, <<>>, <<>>)
                  ELSE IF p = "C" THEN Doc(parentsOfC, <<>>, <<>>)
                  ELSE Doc(<<>>, <<Entry("r1", RuleFull)>>, <<>>)]
    /\ NoCallYet

EditDiamond ==
    /\ edits < MaxRuleEdits
    /\ \E p \in {"A", "B", "C"}, id \in RuleIds :
          \/ \E rule \in {RuleFull, RuleDisabled} : DefineRule(p, id, rule)
          \/ \E patch \in PatchVariants : SetOverride(p, id, patch)

NextDiamond ==
    \/ EditDiamond
    \/ CallResolveChain("A")
    \/ CallResolveRules("A")

SpecDiamond == InitDiamond /\ [][NextDiamond]_vars

\* ------------------------------------------------ the order of severities
\* One document whose rules are written one after the other, each with one
\* of the four severities, enabled or not.
SortRule(sev, en) ==
    [name |-> "n", description |-> "d", category |-> "c",
     severity |-> sev, enabled |-> en]

AppendRule(sev, en) ==
    /\ Len(fs["A"].rules) < MaxRules
    /\ Len(fs["A"].rules) < Len(SortIds)
    /\ DefineRule("A", SortIds[Len(fs["A"].rules) + 1], SortRule(sev, en))

NextSort ==
    \/ \E k \in 1..Len(Severities), en \in BOOLEAN :
          AppendRule(Severities[k], en)
    \/ CallGetEffectiveRules("A")

SpecSort == Init /\ [][NextSort]_vars

\* ------------------------------------------------------ the session store
\* constitution.ts over constitutionalRules.ts. The capacity and the idle
\* time are scaled down (50 entries and one hour in the source) so that a
\* session can fill up and expire within the bounds; the clock counts in
\* units of which SESSION_TTL_MS are the idle time.
MAX_RULES_PER_SESSION == 3
SESSION_TTL_MS == 1
MaxFileEdits == 1
MaxTime == SESSION_TTL_MS + 2
MaxLog == MAX_RULES_PER_SESSION + 1
SessionIds == {"s1", "s2"}

\* A rule string is the sequence of the parts it is concatenated from; the
\* empty string is the empty sequence.
Text(t) == <<t>>
EmptyText == <<>>
RuleTexts == {Text("x"), Text("y")}

\* process.env.VIBE_CHECK_RULES_FILE, the file of VIBE_CHECK_STORAGE_DIR and
\* the file of the home directory.
RulesFileVar == "A"
StorageDirFile == "B"
HomeDirFile == "C"

Exists(files, p) == files[p].kind # "missing"

\* path.join(storageDir, 'constitutional-rules.json') for the storage
\* directories there are.
RulesFileIn == [dirB |-> StorageDirFile, dirD |-> "D"]

\* A variable that is not set and a config field that is not given.
Unset == ""

\* The environment of the server's process and the config of a call that
\* passes none.
ProcessEnv ==
    [VIBE_CHECK_RULES_FILE |-> RulesFileVar, VIBE_CHECK_STORAGE_DIR |-> "dirB"]
NoConfig == [rulesFile |-> Unset, storageDir |-> Unset]

\* getConstitutionalRulesPath that tries the storage directory first.
getConstitutionalRulesPathOf_StorageFirst(files, env, config) ==
    LET storageDir == IF config.storageDir # Unset THEN config.storageDir
                      ELSE env.VIBE_CHECK_STORAGE_DIR
    IN IF storageDir # Unset /\ Exists(files, RulesFileIn[storageDir])
       THEN RulesFileIn[storageDir]
       ELSE IF env.VIBE_CHECK_RULES_FILE # Unset
               /\ Exists(files, env.VIBE_CHECK_RULES_FILE)
       THEN env.VIBE_CHECK_RULES_FILE
       ELSE IF config.rulesFile # Unset /\ Exists(files, config.rulesFile)
       THEN config.rulesFile
       ELSE IF Exists(files, HomeDirFile)
       THEN HomeDirFile
       ELSE NoPath

\* getConstitutionalRulesPath(config) in the environment env.
getConstitutionalRulesPathOf(files, env, config) ==
    LET storageDir == IF config.storageDir # Unset THEN config.storageDir
                      ELSE env.VIBE_CHECK_STORAGE_DIR
    IN IF env.VIBE_CHECK_RULES_FILE # Unset
          /\ Exists(files, env.VIBE_CHECK_RULES_FILE)
       THEN env.VIBE_CHECK_RULES_FILE
       ELSE IF config.rulesFile # Unset /\ Exists(files, config.rulesFile)
       THEN config.rulesFile
       ELSE IF storageDir # Unset /\ Exists(files, RulesFileIn[storageDir])
       THEN RulesFileIn[storageDir]
       ELSE IF Exists(files, HomeDirFile)
       THEN HomeDirFile
       ELSE NoPath

\* getConstitutionalRulesPath() as the store, the watcher and the CLI call
\* it, without a config.
getConstitutionalRulesPath(files) ==
    getConstitutionalRulesPathOf(files, ProcessEnv, NoConfig)

\* The catch block that throws the exception on.
catchLoad_Rethrows(r) == r

\* try { return getEffectiveRules(rulesPath) } catch (error) { return [] }
catchLoad(r) == IF IsThrown(r) THEN [kind |-> "ok", rules |-> <<>>] ELSE r

\* loadConstitutionalRules that leaves the rules in merge order.
loadConstitutionalRules_Unsorted(files) ==
    LET rulesPath == getConstitutionalRulesPath(files)
        r == resolveRules(files, rulesPath)
    IN IF rulesPath = NoPath \/ IsThrown(r)
       THEN {[kind |-> "ok", rules |-> <<>>]}
       ELSE LET ids == filterEnabled(r.rules, r.order, 1)
            IN {[kind |-> "ok",
                 rules |-> [i \in 1..Len(ids) |-> r.rules[ids[i]]]]}

\* loadConstitutionalRules: the outcomes it may have, a rule list or, were
\* the catch block to let one through, an exception.
loadConstitutionalRules(files) ==
    LET rulesPath == getConstitutionalRulesPath(files)
    IN IF rulesPath = NoPath
       THEN {[kind |-> "ok", rules |-> <<>>]}
       ELSE {LET c == catchLoad(r)
             IN IF IsThrown(c) THEN c ELSE [kind |-> "ok", rules |-> c.rules] :
                r \in getEffectiveRules(files, rulesPath)}

\* The text a template literal gives a field: 'undefined' when it is absent.
FieldText(rule, field) ==
    IF field \in DOMAIN rule THEN rule[field] ELSE "undefined"

\* The icon of a severity: every severity but CRITICAL, HIGH and MEDIUM gets
\* the icon of LOW.
SeverityIcon(rule) ==
    IF FieldText(rule, "severity") = "CRITICAL" THEN "icon-critical"
    ELSE IF FieldText(rule, "severity") = "HIGH" THEN "icon-high"
    ELSE IF FieldText(rule, "severity") = "MEDIUM" THEN "icon-medium"
    ELSE "icon-low"

\* `${severity} [${rule.category}] ${rule.name}: ${rule.description}`, then
\* the rationale and the first two examples when there are any.
ruleToString(rule) ==
    <<SeverityIcon(rule), FieldText(rule, "category"),
      FieldText(rule, "name"), FieldText(rule, "description")>>
    \o (IF ~IsFalsy(rule, "rationale")
        THEN <<"Rationale", rule.rationale>> ELSE <<>>)
    \o (IF "examples" \in DOMAIN rule /\ Len(rule.examples) > 0
        THEN <<"Examples">>
             \o SubSeq(rule.examples, 1,
                       IF Len(rule.examples) < 2 THEN Len(rule.examples) ELSE 2)
        ELSE <<>>)

rulesToStrings(rules) == [i \in 1..Len(rules) |-> ruleToString(rules[i])]

\* loadConstitutionalRulesAsStrings: an exception of the load passes through.
loadConstitutionalRulesAsStrings(files) ==
    {IF IsThrown(o) THEN o
     ELSE [kind |-> "ok", rules |-> rulesToStrings(o.rules)] :
        o \in loadConstitutionalRules(files)}

\* A ConstitutionEntry.
ConstitutionEntry(rules, fileLoaded, updated) ==
    [rules |-> rules, fileLoaded |-> fileLoaded, updated |-> updated]

\* delete obj[key]
Delete(obj, keys) == [k \in DOMAIN obj \ keys |-> obj[k]]

\* initializeSessionConstitution that loads the files on every call.
initializeSessionConstitution_Reloads(map, files, sessionId, fileRules, t) ==
    IF getConstitutionalRulesPath(files) # NoPath
    THEN Put(map, sessionId, ConstitutionEntry(fileRules, TRUE, t))
    ELSE Put(map, sessionId, ConstitutionEntry(<<>>, FALSE, t))

\* initializeSessionConstitution that marks every entry as loaded from
\* the files.
initializeSessionConstitution_Loaded(map, files, sessionId, fileRules, t) ==
    IF sessionId \in DOMAIN map
    THEN map
    ELSE IF getConstitutionalRulesPath(files) # NoPath
    THEN Put(map, sessionId, ConstitutionEntry(fileRules, TRUE, t))
    ELSE Put(map, sessionId, ConstitutionEntry(<<>>, TRUE, t))

\* initializeSessionConstitution: the map after it, fileRules being what
\* loadConstitutionalRulesAsStrings returns and t the clock.
initializeSessionConstitution(map, files, sessionId, fileRules, t) ==
    IF sessionId \in DOMAIN map
    THEN map
    ELSE IF getConstitutionalRulesPath(files) # NoPath
    THEN Put(map, sessionId, ConstitutionEntry(fileRules, TRUE, t))
    ELSE Put(map, sessionId, ConstitutionEntry(<<>>, FALSE, t))

\* if (entry.rules.length >= MAX_RULES_PER_SESSION) entry.rules.shift();
\* entry.rules.push(rule)
pushRule(rules, rule) ==
    IF Len(rules) >= MAX_RULES_PER_SESSION
    THEN Append(Tail(rules), rule)
    ELSE Append(rules, rule)

\* The arrays of file-loaded entries as one array they all hold.
sameArray_SeedShared(map, sessionId) ==
    {s \in DOMAIN map :
        s = sessionId \/ (map[s].fileLoaded /\ map[sessionId].fileLoaded)}

\* The session ids whose entry holds the very array the entry of sessionId
\* holds. An entry is created with an array no other entry has: the result
\* of rules.map(...) in rulesToStrings, the literal [], or rules.slice(...).
sameArray(map, sessionId) == {sessionId}

\* entry.rules.shift() and entry.rules.push(rule) change the array in place,
\* for every entry that holds it.
pushInPlace(map, sessionId, rule) ==
    [s \in DOMAIN map |->
        IF s \in sameArray(map, sessionId)
        THEN [map[s] EXCEPT !.rules = pushRule(@, rule)]
        ELSE map[s]]

\* rules.slice(0, MAX_RULES_PER_SESSION) without the limit.
sliceRules_All(rules) == rules

\* rules.slice(0, MAX_RULES_PER_SESSION)
sliceRules(rules) ==
    SubSeq(rules, 1, IF Len(rules) < MAX_RULES_PER_SESSION
                     THEN Len(rules) ELSE MAX_RULES_PER_SESSION)

\* The sweep that removes nothing.
cleanup_KeepsAll(map, t) == map

\* The sweep that also removes the entries idle for exactly the TTL.
cleanup_AtTTL(map, t) ==
    Delete(map, {s \in DOMAIN map : t - map[s].updated >= SESSION_TTL_MS})

\* cleanup: the map without the entries idle for longer than the TTL.
cleanup(map, t) ==
    Delete(map, {s \in DOMAIN map : t - map[s].updated > SESSION_TTL_MS})

\* What hist records of an entry: the list it was created with, the strings
\* appended since, whether a sweep had removed an entry of the same id
\* before, and how it was created ("located": on first access with a rules
\* file located, "unlocated": on first access with none, "reset": by a
\* reset); of a removed entry only that it was swept.
Born(base, reborn, origin) ==
    [live |-> TRUE, base |-> base, log |-> <<>>, reborn |-> reborn,
     origin |-> origin]
Swept == [live |-> FALSE, base |-> <<>>, log |-> <<>>, reborn |-> TRUE,
          origin |-> "none"]
WasSwept(sessionId) == sessionId \in DOMAIN hist /\ ~hist[sessionId].live

\* hist after a call that left the store as map: the entries the call created
\* are born, the others keep their record.
Recorded(map) ==
    [s \in DOMAIN map \cup DOMAIN hist |->
        IF s \in DOMAIN map /\ s \notin DOMAIN constitutionMap
        THEN Born(map[s].rules, WasSwept(s),
                  IF getConstitutionalRulesPath(fs) # NoPath
                  THEN "located" ELSE "unlocated")
        ELSE hist[s]]

FilesIdle == UNCHANGED <<fs, edits, previous, watch, seen, state>>

\* Whether the call of loadConstitutionalRulesAsStrings within
\* initializeSessionConstitution is reached and ends in the exception o: the
\* session has no entry and a rules file is located.
Raises(sessionId, o) ==
    /\ sessionId \notin DOMAIN constitutionMap
    /\ getConstitutionalRulesPath(fs) # NoPath
    /\ IsThrown(o)

\* The list of a load that returned.
Loaded(o) == IF IsThrown(o) THEN <<>> ELSE o.rules

\* getConstitution(sessionId)
CallGetConstitution(sessionId) ==
    \E o \in loadConstitutionalRulesAsStrings(fs) :
        /\ op' = "getConstitution"
        /\ arg' = sessionId
        /\ UNCHANGED now
        /\ FilesIdle
        /\ IF Raises(sessionId, o)
           THEN /\ res' = o
                /\ UNCHANGED <<constitutionMap, hist>>
           ELSE LET map == initializeSessionConstitution(
                               constitutionMap, fs, sessionId, Loaded(o), now)
                IN /\ constitutionMap' = [map EXCEPT ![sessionId].updated = now]
                   /\ hist' = Recorded(map)
                   /\ res' = [kind |-> "ok", rules |-> map[sessionId].rules]

\* updateConstitution(sessionId, rule)
CallUpdateConstitution(sessionId, rule) ==
    /\ op' = "updateConstitution"
    /\ arg' = sessionId
    /\ UNCHANGED now
    /\ FilesIdle
    /\ IF sessionId = "" \/ rule = EmptyText
       THEN /\ res' = [kind |-> "void", input |-> rule]
            /\ UNCHANGED <<constitutionMap, hist>>
       ELSE \E o \in loadConstitutionalRulesAsStrings(fs) :
              IF Raises(sessionId, o)
              THEN /\ res' = o
                   /\ UNCHANGED <<constitutionMap, hist>>
              ELSE LET map == initializeSessionConstitution(
                                  constitutionMap, fs, sessionId, Loaded(o), now)
                   IN /\ res' = [kind |-> "void", input |-> rule]
                      /\ constitutionMap' =
                            [pushInPlace(map, sessionId, rule)
                                EXCEPT ![sessionId].updated = now]
                      /\ hist' = [Recorded(map) EXCEPT
                                     ![sessionId].log = Append(@, rule)]

\* resetConstitution(sessionId, rules): rules is an array of strings or, with
\* isArray false, some other value.
CallResetConstitution(sessionId, rules) ==
    /\ op' = "resetConstitution"
    /\ arg' = sessionId
    /\ res' = [kind |-> "void", input |-> rules]
    /\ UNCHANGED now
    /\ FilesIdle
    /\ IF sessionId = "" \/ ~rules.isArray
       THEN UNCHANGED <<constitutionMap, hist>>
       ELSE /\ constitutionMap' =
                  Put(constitutionMap, sessionId,
                      ConstitutionEntry(sliceRules(rules.items), FALSE, now))
            /\ hist' = Put(hist, sessionId,
                           Born(sliceRules(rules.items), WasSwept(sessionId),
                                "reset"))

\* One run of the interval timer's callback.
CallCleanup ==
    /\ constitutionMap' = cleanup(constitutionMap, now)
    /\ hist' = [s \in DOMAIN hist |->
                  IF s \in DOMAIN constitutionMap
                       /\ s \notin DOMAIN cleanup(constitutionMap, now)
                  THEN Swept ELSE hist[s]]
    /\ op' = "cleanup"
    /\ arg' = ""
    /\ res' = [kind |-> "void", input |-> EmptyText]
    /\ UNCHANGED now
    /\ FilesIdle

\* Date.now() moves on.
Tick ==
    /\ now < MaxTime
    /\ now' = now + 1
    /\ UNCHANGED <<fs, op, arg, res, edits, previous, constitutionMap, hist,
                   watch, seen, state>>

\* The rule documents the files are written with: a document of two rules
\* that the severity order swaps, one of them with a rationale and three
\* examples; a document with one enabled rule more than a session holds; a
\* document whose parent comes and goes with the storage-directory file;
\* a document that extends the file of the environment variable, itself
\* when it is written there; a document with a rule without a name and an
\* override of a rule no document defines.
DocTwo ==
    Doc(<<>>,
        <<Entry("r1", [name |-> "n1", description |-> "d1", category |-> "c1",
                       severity |-> "LOW", enabled |-> TRUE]),
          Entry("r2", [name |-> "n2", description |-> "d2",
                       severity |-> "CRITICAL", enabled |-> TRUE,
                       rationale |-> "why",
                       examples |-> <<"e1", "e2", "e3">>])>>,
        <<>>)
DocFull ==
    Doc(<<>>,
        [k \in 1..(MAX_RULES_PER_SESSION + 1) |->
            Entry(SortIds[k], SortRule(IF k = 1 THEN "MEDIUM" ELSE "HIGH", TRUE))],
        <<>>)
DocChild ==
    Doc(<<StorageDirFile>>, <<Entry("r1", RuleFull)>>, <<>>)
DocLoop ==
    Doc(<<RulesFileVar>>, <<Entry("r1", RuleFull)>>, <<>>)
DocUnchecked ==
    Doc(<<>>,
        <<Entry("r1", [description |-> "d1", category |-> "c1",
                       severity |-> "HIGH", enabled |-> TRUE])>>,
        <<Entry("r2", PatchDisable)>>)
StoreDocs == {DocTwo, DocFull, DocChild, DocLoop, DocUnchecked, Invalid}

WriteFile(p, doc) ==
    /\ fs[p] # doc
    /\ fs' = [fs EXCEPT ![p] = doc]
    /\ edits' = edits + 1
    /\ op' = "none"
    /\ arg' = ""
    /\ res' = NoCall
    /\ UNCHANGED <<previous, constitutionMap, now, hist, watch, seen,
                   state>>

\* The lists a session is reset to: none, one string, one string more than a
\* session holds; and a value that is no array.
LongList == [k \in 1..(MAX_RULES_PER_SESSION + 1) |-> <<"z", SortIds[k]>>]
ResetInputs ==
    {[isArray |-> TRUE, items |-> items] :
        items \in {<<>>, <<Text("z")>>, LongList}}
    \cup {[isArray |-> FALSE, items |-> <<>>]}

\* The server starts with the files as they are on disk: none, or the file of
\* the environment variable.
FilesAtStart(a) == [p \in Paths |-> IF p = RulesFileVar THEN a ELSE Missing]

InitStore ==
    /\ \E a \in {Missing, DocTwo, DocFull} : fs = FilesAtStart(a)
    /\ NoCallYet

InitSweep ==
    /\ \E a \in {Missing, DocTwo} : fs = FilesAtStart(a)
    /\ NoCallYet

EditFiles(paths, docs) ==
    /\ edits < MaxFileEdits
    /\ \E p \in paths, doc \in docs : WriteFile(p, doc)

\* Whether a session has room for one more appended string in hist.
LogBelow(sessionId, maxLog) ==
    (sessionId \in DOMAIN hist /\ hist[sessionId].live)
        => Len(hist[sessionId].log) < maxLog

\* The calls of the store's exports and of its timer, for the given session
\* ids, rule strings and reset lists.
StoreCalls(sessionIds, rules, lists, maxLog) ==
    \/ \E sessionId \in sessionIds : CallGetConstitution(sessionId)
    \/ \E sessionId \in sessionIds \cup {""}, rule \in rules \cup {EmptyText} :
          LogBelow(sessionId, maxLog) /\ CallUpdateConstitution(sessionId, rule)
    \/ \E sessionId \in sessionIds \cup {""}, list \in lists :
          CallResetConstitution(sessionId, list)
    \/ CallCleanup

\* One session that is read, appended to and reset while the files change;
\* the clock stands still.
NextStore ==
    \/ EditFiles({RulesFileVar}, {Missing} \cup StoreDocs)
    \/ EditFiles({StorageDirFile}, {Missing, DocTwo, Invalid})
    \/ StoreCalls({"s1"}, RuleTexts, ResetInputs, MaxLog)

SpecStore == InitStore /\ [][NextStore]_vars

\* Two sessions, the clock and the sweep; one rule string, two reset lists,
\* one string appended to an entry.
NextSweep ==
    \/ EditFiles({RulesFileVar}, {Missing, DocTwo})
    \/ StoreCalls(SessionIds, {Text("x")},
                  {[isArray |-> TRUE, items |-> items] :
                      items \in {<<Text("z")>>, LongList}}, 1)
    \/ Tick

SpecSweep == InitSweep /\ [][NextSweep]_vars

\* ------------------------------------------------------ the rules watcher
\* ConstitutionalRulesWatcher of generate-rules-from-docs.ts over the store
\* and the files. options.debounceMs (300 ms in the source) is scaled down
\* to clock units.
DebounceMs == 2
MaxWatchEdits == 2
MaxWatchTime == DebounceMs + 2

\* initializeHotReload() constructs the watcher and calls start() on it once;
\* a second call finds globalWatcher set and returns.
HotReloadStarts == 1

\* The paths a list of watchers is on.
Range(seq) == {seq[i] : i \in 1..Len(seq)}

\* watchInheritanceChain(rulesPath) with `depth` frames of stack left: the
\* parents it puts a watcher on, in order; whether the stack ran out on the
\* way; and whether an exception leaves the call. The call made with no
\* frame left throws within the caller's try block, which ends the caller's
\* loop over its parents; the caller's catch block logs it.
RECURSIVE watchInheritanceChain(_, _, _)
RECURSIVE watchParents(_, _, _, _)
watchParents(files, parents, i, depth) ==
    IF i > Len(parents)
    THEN [watched |-> <<>>, overflow |-> FALSE, thrown |-> FALSE]
    ELSE IF ~Exists(files, parents[i])
    THEN watchParents(files, parents, i + 1, depth)
    ELSE LET below == watchInheritanceChain(files, parents[i], depth - 1)
         IN IF below.thrown
            THEN [below EXCEPT !.watched = <<parents[i]>> \o @]
            ELSE LET rest == watchParents(files, parents, i + 1, depth)
                 IN [watched |-> <<parents[i]>> \o below.watched \o rest.watched,
                     overflow |-> below.overflow \/ rest.overflow,
                     thrown |-> rest.thrown]

watchInheritanceChain(files, rulesPath, depth) ==
    IF depth = 0
    THEN [watched |-> <<>>, overflow |-> TRUE, thrown |-> TRUE]
    ELSE IF files[rulesPath].kind # "doc"
    THEN [watched |-> <<>>, overflow |-> FALSE, thrown |-> FALSE]
    ELSE [watchParents(files, files[rulesPath].extends, 1, depth)
            EXCEPT !.thrown = FALSE]

\* start(): the watcher after it, what it returns and whether the chain
\* walk ran out of stack.
start(w, files) ==
    LET rulesPath == getConstitutionalRulesPath(files)
    IN IF rulesPath = NoPath \/ w.watcher # NoPath
       THEN [w |-> w, value |-> FALSE, overflow |-> FALSE]
       ELSE LET chain == watchInheritanceChain(files, rulesPath, StackLimit)
            IN [w |-> [w EXCEPT !.currentRulesPath = rulesPath,
                                !.watcher = rulesPath,
                                !.parents = @ \o chain.watched],
                value |-> TRUE,
                overflow |-> chain.overflow]

\* clearTimeout(handle)
clearTimeout(timers, handle) == timers \ {handle}

\* stop()
stop(w) ==
    [w EXCEPT !.watcher = NoPath,
              !.timers = clearTimeout(@, w.debounceTimer),
              !.debounceTimer = NoTimer]

\* scheduleReload without the clearTimeout.
scheduleReload_NoClear(w, t) ==
    [w EXCEPT !.timers = @ \cup {t + DebounceMs},
              !.debounceTimer = t + DebounceMs]

\* scheduleReload() at time t
scheduleReload(w, t) ==
    [w EXCEPT !.timers = clearTimeout(@, w.debounceTimer) \cup {t + DebounceMs},
              !.debounceTimer = t + DebounceMs]

\* The body of reload() that takes the validation's answer for valid.
reloadOutcomes_NoValidation(files, currentRulesPath) ==
    {[kind |-> "onReload", path |-> currentRulesPath, count |-> 0]}

\* The body of reload(): the callback it ends with - onError with what was
\* thrown, or onReload with the path and the number of rules loaded.
reloadOutcomes(files, currentRulesPath) ==
    LET validation == validateRules(files, currentRulesPath)
    IN IF IsThrown(validation)
       THEN {[kind |-> "onError", path |-> validation.path,
              count |-> 0]}
       ELSE IF ~validation.valid
       THEN {[kind |-> "onError", path |-> currentRulesPath,
              count |-> Len(validation.errors)]}
       ELSE {IF IsThrown(o)
             THEN [kind |-> "onError", path |-> o.path, count |-> 0]
             ELSE [kind |-> "onReload", path |-> currentRulesPath,
                   count |-> Len(o.rules)] :
                o \in loadConstitutionalRules(files)}

\* clearConstitutionCache that empties the store.
clearConstitutionCache_Clears(map) == <<>>

\* clearConstitutionCache(): it logs a message; the store is out of its reach.
clearConstitutionCache(map) == map

WatchIdle == UNCHANGED <<previous, hist, state>>

\* watcher.start()
CallStart ==
    /\ seen.starts < HotReloadStarts
    /\ LET r == start(watch, fs)
       IN /\ watch' = r.w
          /\ res' = [kind |-> "start", value |-> r.value,
                     overflow |-> r.overflow]
    /\ seen' = [seen EXCEPT !.starts = @ + 1]
    /\ op' = "start"
    /\ arg' = ""
    /\ UNCHANGED <<fs, edits, constitutionMap, now>>
    /\ WatchIdle

\* watcher.stop()
CallStop ==
    /\ watch.watcher # NoPath
    /\ watch' = stop(watch)
    /\ seen' = IF stop(watch).timers = watch.timers
               THEN seen
               ELSE [seen EXCEPT !.cancelled = @ + 1, !.lastNote = NoTimer]
    /\ op' = "stop"
    /\ arg' = ""
    /\ res' = [kind |-> "void", input |-> EmptyText]
    /\ UNCHANGED <<fs, edits, constitutionMap, now>>
    /\ WatchIdle

\* Whether a timeout is due. The runtime runs a due timeout before it
\* delivers a later change notification and before the clock moves on.
TimerDue == \E due \in watch.timers : due <= now

\* Whether a watcher that is open is on the path: stop() closes the one on
\* the root document, nothing closes those on the parents.
Watched(w, p) == p = w.watcher \/ p \in Range(w.parents)

\* The author writes a document to a file that exists; the watchers on it
\* get a 'change' notification and call scheduleReload.
ChangeFile(p, doc) ==
    /\ edits < MaxWatchEdits
    /\ ~TimerDue
    /\ Exists(fs, p)
    /\ fs[p] # doc
    /\ fs' = [fs EXCEPT ![p] = doc]
    /\ edits' = edits + 1
    /\ op' = "change"
    /\ arg' = p
    /\ res' = NoCall
    /\ IF Watched(watch, p)
       THEN /\ watch' = scheduleReload(watch, now)
            /\ seen' = [seen EXCEPT
                          !.lastNote = now,
                          !.notes = @ + 1,
                          !.bursts = IF seen.lastNote = NoTimer
                                        \/ now - seen.lastNote >= DebounceMs
                                     THEN @ + 1 ELSE @]
       ELSE UNCHANGED <<watch, seen>>
    /\ UNCHANGED <<constitutionMap, now>>
    /\ WatchIdle

\* A timeout of scheduleReload runs: reload().
TimerFires ==
    \E due \in watch.timers :
        /\ due <= now
        /\ seen' = [seen EXCEPT !.attempts = @ + 1]
        /\ op' = "reload"
        /\ arg' = watch.currentRulesPath
        /\ IF watch.isReloading \/ watch.currentRulesPath = NoPath
           THEN /\ watch' = [watch EXCEPT !.timers = @ \ {due}]
                /\ res' = [kind |-> "return", path |-> NoPath, count |-> 0]
                /\ UNCHANGED constitutionMap
           ELSE \E r \in reloadOutcomes(fs, watch.currentRulesPath) :
                   /\ watch' = [watch EXCEPT !.timers = @ \ {due},
                                             !.isReloading = FALSE]
                   /\ res' = r
                   /\ constitutionMap' =
                         IF r.kind = "onReload"
                         THEN clearConstitutionCache(constitutionMap)
                         ELSE constitutionMap
        /\ UNCHANGED <<fs, edits, now>>
        /\ WatchIdle

\* Date.now() moves on while no timeout is due.
WatchTick ==
    /\ now < MaxWatchTime
    /\ ~TimerDue
    /\ now' = now + 1
    /\ UNCHANGED <<fs, op, arg, res, edits, previous, constitutionMap, hist,
                   watch, seen, state>>

\* The documents the author writes: two valid rules; a document that fails
\* validation; to the root file also a child of the storage-directory file.
\* At the start the root document is absent, valid, extends itself or
\* extends the storage-directory file, and
\* the storage-directory file is absent, valid or no JSON.
WatchDocs ==
    [p \in {RulesFileVar, StorageDirFile} |->
        IF p = RulesFileVar THEN {DocTwo, DocChild, DocUnchecked}
        ELSE {DocTwo, DocUnchecked}]

InitWatch ==
    /\ \E a \in {Missing, DocTwo, DocLoop, DocChild},
          b \in {Missing, DocTwo, Invalid} :
          fs = [p \in Paths |-> IF p = RulesFileVar THEN a
                                ELSE IF p = StorageDirFile THEN b
                                ELSE Missing]
    /\ NoCallYet

NextWatch ==
    \/ CallStart
    \/ CallStop
    \/ \E p \in DOMAIN WatchDocs : \E doc \in WatchDocs[p] :
          ChangeFile(p, doc)
    \/ TimerFires
    \/ WatchTick
    \/ CallGetConstitution("s1")

SpecWatch == InitWatch /\ [][NextWatch]_vars

\* ------------------------------------------------- locating the root file
\* getConstitutionalRulesPath called in every environment - each variable set
\* or not - with and without a config, over the files that exist.
Envs ==
    {[VIBE_CHECK_RULES_FILE |-> f, VIBE_CHECK_STORAGE_DIR |-> d] :
        f \in {Unset, RulesFileVar, "D"}, d \in {Unset, "dirB", "dirD"}}
Configs ==
    {NoConfig, [rulesFile |-> "D", storageDir |-> Unset],
     [rulesFile |-> Unset, storageDir |-> "dirD"]}

CallGetConstitutionalRulesPath(env, config) ==
    /\ op' = "getConstitutionalRulesPath"
    /\ arg' = [env |-> env, config |-> config]
    /\ res' = [kind |-> "path",
               value |-> getConstitutionalRulesPathOf(fs, env, config)]
    /\ UNCHANGED <<fs, edits, previous>>
    /\ StoreIdle

InitPath ==
    /\ fs \in [Paths -> {Missing, EmptyDoc}]
    /\ NoCallYet

NextPath ==
    \E env \in Envs, config \in Configs :
        CallGetConstitutionalRulesPath(env, config)

SpecPath == InitPath /\ [][NextPath]_vars

\* ------------------------------------------------------ the validate CLI
\* The checks of Step 5 on one resolved rule: the four required fields and
\* the severity literal.
cliFieldErrors(ruleId, rule) ==
    (IF IsFalsy(rule, "name")
     THEN <<Msg("missing", "", ruleId, "name")>> ELSE <<>>)
    \o (IF IsFalsy(rule, "description")
        THEN <<Msg("missing", "", ruleId, "description")>> ELSE <<>>)
    \o (IF IsFalsy(rule, "category")
        THEN <<Msg("missing", "", ruleId, "category")>> ELSE <<>>)
    \o (IF IsFalsy(rule, "severity")
        THEN <<Msg("missing", "", ruleId, "severity")>> ELSE <<>>)
    \o (IF ~IsFalsy(rule, "severity") /\ ~HasRank(rule)
        THEN <<Msg("invalid severity", "", ruleId, rule.severity)>> ELSE <<>>)

\* The warning of Step 5 for an empty examples array.
cliFieldWarnings(ruleId, rule) ==
    IF "examples" \in DOMAIN rule /\ Len(rule.examples) = 0
    THEN <<Msg("empty examples", "", ruleId, "")>> ELSE <<>>

RECURSIVE cliRuleErrors(_, _, _)
cliRuleErrors(rules, order, i) ==
    IF i > Len(order)
    THEN <<>>
    ELSE cliFieldErrors(order[i], rules[order[i]])
         \o cliRuleErrors(rules, order, i + 1)

RECURSIVE cliRuleWarnings(_, _, _)
cliRuleWarnings(rules, order, i) ==
    IF i > Len(order)
    THEN <<>>
    ELSE cliFieldWarnings(order[i], rules[order[i]])
         \o cliRuleWarnings(rules, order, i + 1)

ValidationResult(valid, errors, warnings, inheritanceChain) ==
    [valid |-> valid, errors |-> errors, warnings |-> warnings,
     inheritanceChain |-> inheritanceChain]

\* uniqueSources.add(source) for the sources from the i-th on: a Set keeps
\* the order of the first insertions.
RECURSIVE addUnique(_, _, _)
addUnique(uniqueSources, sourceList, i) ==
    IF i > Len(sourceList)
    THEN uniqueSources
    ELSE addUnique(
             IF \/ sourceList[i].override
                \/ \E j \in 1..Len(uniqueSources) :
                      uniqueSources[j] = sourceList[i].file
             THEN uniqueSources
             ELSE Append(uniqueSources, sourceList[i].file),
             sourceList, i + 1)

\* info.inheritanceChain: Object.values(sources) from the i-th rule id on,
\* every source without "(override)" added to the Set uniqueSources.
RECURSIVE inheritanceChainOf(_, _, _, _)
inheritanceChainOf(sources, order, i, uniqueSources) ==
    IF i > Len(order)
    THEN uniqueSources
    ELSE inheritanceChainOf(sources, order, i + 1,
                            addUnique(uniqueSources, sources[order[i]], 1))

\* validateConstitutionalRules(rulesFilePath) of the CLI: rulesFilePath is
\* the value of --rules, or Unset.
validateConstitutionalRules(files, rulesFilePath) ==
    LET rulesPath == IF rulesFilePath # Unset THEN rulesFilePath
                     ELSE getConstitutionalRulesPath(files)
    IN IF rulesFilePath # Unset /\ ~Exists(files, rulesPath)
       THEN ValidationResult(FALSE, <<Msg("not found", rulesPath, "", "")>>,
                             <<>>, <<>>)
       ELSE IF rulesPath = NoPath
       THEN ValidationResult(TRUE, <<>>, <<Msg("no file", "", "", "")>>,
                             <<>>)
       ELSE IF files[rulesPath].kind = "invalid"
       THEN ValidationResult(FALSE, <<Msg("syntax", rulesPath, "", "")>>, <<>>,
                             <<>>)
       ELSE LET validation == validateRules(files, rulesPath)
                r == resolveRules(files, rulesPath)
            IN IF IsThrown(validation)
               THEN ValidationResult(
                        FALSE, <<Msg("resolving", validation.path, "", "")>>,
                        <<>>, <<>>)
               ELSE LET errors ==
                            (IF validation.valid THEN <<>>
                             ELSE validation.errors)
                            \o conflictErrors(r.conflicts, 1)
                            \o cliRuleErrors(r.rules, r.order, 1)
                        warnings ==
                            validation.warnings
                            \o conflictWarnings(r.conflicts, 1)
                            \o cliRuleWarnings(r.rules, r.order, 1)
                    IN ValidationResult(
                           Len(errors) = 0, errors, warnings,
                           inheritanceChainOf(r.sources, r.order, 1, <<>>))

\* The exit code that ignores the result.
exitCode_Zero(result) == 0

\* process.exit(result.valid ? 0 : 1)
exitCode(result) == IF result.valid THEN 0 ELSE 1

\* main() with --rules=rulesFilePath, or without the option.
CallMain(rulesFilePath) ==
    LET result == validateConstitutionalRules(fs, rulesFilePath)
    IN /\ op' = "validate"
       /\ arg' = rulesFilePath
       /\ res' = [kind |-> "exit", code |-> exitCode(result),
                  result |-> result]
       /\ UNCHANGED <<fs, edits, previous>>
       /\ StoreIdle

\* A document that only overrides a rule of its parent.
DocPatch == Doc(<<StorageDirFile>>, <<>>, <<Entry("r1", PatchDisable)>>)

\* A document validateRules accepts and Step 5 does not: a rule without a
\* category and a rule with a severity that is none of the four.
DocLax ==
    Doc(<<>>, <<Entry("r1", RuleNoCategory), Entry("r2", RuleBadSeverity)>>,
        <<>>)

CliDocs == {Missing, Invalid, DocTwo, DocChild, DocLoop, DocUnchecked,
            DocLax, Doc(<<>>, <<Entry("r1", RuleFull)>>, <<>>), DocPatch}

InitCli ==
    /\ \E a \in CliDocs, b \in CliDocs :
          fs = [p \in Paths |-> IF p = RulesFileVar THEN a
                                ELSE IF p = StorageDirFile THEN b
                                ELSE Missing]
    /\ NoCallYet

NextCli ==
    \E rulesFilePath \in {Unset, RulesFileVar, StorageDirFile, "D"} :
        CallMain(rulesFilePath)

SpecCli == InitCli /\ [][NextCli]_vars

\* ------------------------------------------------- the loader's own check
\* validateConstitutionalRules() of the rules-loading module, called without
\* a config: the results it may return. The message of an exception is its
\* kind and the path it names.
validateConstitutionalRulesOfLoader(files) ==
    LET rulesPath == getConstitutionalRulesPath(files)
    IN IF rulesPath = NoPath
       THEN {[valid |-> FALSE, path |-> NoPath,
              errorMessage |-> Msg("no file", "", "", "")]}
       ELSE {IF IsThrown(o)
             THEN [valid |-> FALSE, path |-> rulesPath,
                   errorMessage |-> Msg(o.kind, o.path, "", "")]
             ELSE [valid |-> TRUE, path |-> rulesPath,
                   errorMessage |-> Msg("undefined", "", "", "")] :
                o \in loadConstitutionalRules(files)}

CallValidateConstitutionalRules ==
    /\ op' = "validateConstitutionalRules"
    /\ arg' = ""
    /\ \E result \in validateConstitutionalRulesOfLoader(fs) :
          res' = [kind |-> "checked", result |-> result]
    /\ UNCHANGED <<fs, edits, previous>>
    /\ StoreIdle

\* The check is called with the files of the validate command.
SpecLoader == InitCli /\ [][CallValidateConstitutionalRules]_vars

\* ------------------------------------------------ the interaction history
\* The most entries a session's history keeps, the entries added to one
\* session and the writes of the history file in flight at a time.
HistoryLimit == 10
MaxAdds == 11
MaxWrites == 2
HistoryIds == {"default", "s1"}

\* JSON.stringify(Object.fromEntries(history)): the text of the map as it
\* is at the call.
stringify(history) == [kind |-> "json", data |-> history]

\* The content of a file two calls of fs.writeFile have written to at the
\* same time: each truncates the file and writes its text from the start.
Torn == [kind |-> "torn"]

\* sessHistory.push(entry); if (sessHistory.length > 10) sessHistory.shift()
pushEntry(sessHistory, entry) ==
    LET pushed == Append(sessHistory, entry)
    IN IF Len(pushed) > HistoryLimit THEN Tail(pushed) ELSE pushed

\* saveHistory() up to its await: the text is made from the map as it is
\* now and fs.writeFile is started; nothing waits for it. A write that is
\* in flight together with another one has raced.
saveHistory(st) ==
    [st EXCEPT
        !.started = @ + 1,
        !.writes = {[w EXCEPT !.raced = TRUE] : w \in @}
                   \cup {[n |-> st.started + 1, data |-> stringify(st.history),
                          raced |-> st.writes # {}]}]

\* addToHistory(sessionId, input, output); entry stands for the object
\* { input, output, timestamp }.
addToHistory(st, sessionId, entry) ==
    LET known == IF sessionId \in DOMAIN st.history
                 THEN st.history ELSE Put(st.history, sessionId, <<>>)
    IN saveHistory([st EXCEPT
                       !.history = [known EXCEPT
                                       ![sessionId] = pushEntry(@, entry)]])

\* The number of the interactions added to a session so far; the entry of
\* an interaction is modelled by its number.
Added(st, sessionId) ==
    IF sessionId \in DOMAIN st.history /\ Len(st.history[sessionId]) > 0
    THEN st.history[sessionId][Len(st.history[sessionId])]
    ELSE 0

HistoryIdle ==
    UNCHANGED <<fs, edits, previous, constitutionMap, now, hist, watch, seen>>

CallAddToHistory(sessionId) ==
    /\ Added(state, sessionId) < MaxAdds
    /\ Cardinality(state.writes) < MaxWrites
    /\ state' = addToHistory(state, sessionId, Added(state, sessionId) + 1)
    /\ op' = "addToHistory"
    /\ arg' = sessionId
    /\ res' = [kind |-> "void", input |-> EmptyText]
    /\ HistoryIdle

\* One fs.writeFile of the history file completes: the file holds its text,
\* or, when the write has raced with another one, a mix of the two texts.
\* The writes complete in any order.
WriteCompletes ==
    \E w \in state.writes :
       \E content \in {w.data} \cup (IF w.raced THEN {Torn} ELSE {}) :
          /\ state' = [state EXCEPT !.writes = @ \ {w}, !.file = content]
          /\ op' = "writeFile"
          /\ arg' = ""
          /\ res' = [kind |-> "written", n |-> w.n]
          /\ HistoryIdle

InitHistory ==
    /\ fs = [p \in Paths |-> Missing]
    /\ NoCallYet

NextHistory ==
    \/ \E sessionId \in HistoryIds : CallAddToHistory(sessionId)
    \/ WriteCompletes

SpecHistory == InitHistory /\ [][NextHistory]_vars

\* ----------------------------------------------------------- the claims
RECURSIVE Flatten(_, _)
Flatten(seqs, i) ==
    IF i > Len(seqs) THEN <<>> ELSE seqs[i] \o Flatten(seqs, i + 1)

ExampleGraph ==
    /\ \A p \in Paths : fs[p].kind = "doc"
    /\ fs["A"].extends = <<"B", "C">>
    /\ fs["B"].extends = <<"D">>
    /\ fs["C"].extends = <<>>
    /\ fs["D"].extends = <<>>

ChainCall == op \in {"resolveInheritanceChain", "resolveRules"}

\* C1: a resolved chain is the chains of the document's parents, each as
\* resolved on its own, concatenated in declared `extends` order, followed
\* by the document itself; for A extends [B, C], B extends [D] it is
\* [D, B, C, A].
C1_ChainOrder ==
    (ChainCall /\ res.kind = "ok") =>
        LET parents == fs[arg].extends
            parentChains == [i \in 1..Len(parents) |-> Chain(fs, parents[i])]
        IN /\ \A i \in 1..Len(parents) : parentChains[i].kind = "ok"
           /\ res.chain =
                Flatten([i \in 1..Len(parents) |-> parentChains[i].chain], 1)
                \o <<arg>>
           /\ (ExampleGraph /\ arg = "A") => res.chain = <<"D", "B", "C", "A">>

C1_Witness ==
    /\ op = "resolveInheritanceChain"
    /\ ExampleGraph
    /\ arg = "A"
    /\ res.kind = "ok"
    /\ res.chain = <<"D", "B", "C", "A">>

\* C2: chain resolution always ends, never by exhausting the call stack:
\* with a chain or with one of the three errors. A cycle error names a path
\* that is reachable from the start and lies on an `extends` cycle; when all
\* reachable documents load and one of them lies on a cycle (A extends B and
\* B extends A, A extends A) the result is the cycle error; when none lies on
\* a cycle there is no cycle error, and a chain when they all load.
C2_ChainTerminates ==
    ChainCall =>
        LET reach == ReachFrom(fs, arg)
            cyclic == \E q \in reach : OnCycle(fs, q)
            loadable == \A q \in reach : Loadable(fs, q)
        IN /\ res.kind \in {"ok", "cycle", "notfound", "invalid"}
           /\ res.kind = "cycle" =>
                 res.path \in reach /\ OnCycle(fs, res.path)
           /\ (loadable /\ cyclic) => res.kind = "cycle"
           /\ ~cyclic => res.kind # "cycle"
           /\ (loadable /\ ~cyclic) => res.kind = "ok"

C2_Witness ==
    /\ op = "resolveInheritanceChain"
    /\ arg = "A"
    /\ fs["A"].kind = "doc" /\ fs["A"].extends = <<"B">>
    /\ fs["B"].kind = "doc" /\ fs["B"].extends = <<"A">>
    /\ res = Thrown("cycle", "A")

\* C3: when a document reachable through `extends` from the starting path
\* (the start included) is missing or unparsable, resolveRules,
\* validateRules and getEffectiveRules end with the exception alone: no
\* chain, rule map, validation result or rule list comes back.
C3_MissingOrInvalidFails ==
    (op \in {"resolveRules", "validateRules", "getEffectiveRules"}
       /\ \E q \in ReachFrom(fs, arg) : ~Loadable(fs, q)) =>
        /\ res.kind \in {"notfound", "invalid", "cycle"}
        /\ DOMAIN res = {"kind", "path"}

C3_Witness ==
    /\ op = "getEffectiveRules"
    /\ arg = "A"
    /\ fs["A"].kind = "doc" /\ fs["A"].extends = <<"B", "C">>
    /\ fs["B"].kind = "doc"
    /\ fs["C"].kind = "missing"
    /\ res = Thrown("notfound", "C")

\* ------------------------------------------ a chain, read position by position
\* The positions of chain c whose document defines id in `rules`, or lists
\* it in `overrides`.
Definers(files, c, id) ==
    {i \in 1..Len(c) : id \in Keys(files[c[i]].rules)}
Overriders(files, c, id) ==
    {i \in 1..Len(c) : id \in Keys(files[c[i]].overrides)}

Max(S) == CHOOSE x \in S : \A y \in S : y <= x
Min(S) == CHOOSE x \in S : \A y \in S : x <= y

RECURSIVE Ascending(_)
Ascending(S) ==
    IF S = {} THEN <<>> ELSE <<Min(S)>> \o Ascending(S \ {Min(S)})

\* Whether id is defined at or before position i: the override of position
\* i (applied after the rules of its own document) then finds its target.
DefinedBy(files, c, id, i) == \E j \in Definers(files, c, id) : j <= i

RECURSIVE Patched(_, _, _, _, _, _)
Patched(rule, files, c, id, positions, n) ==
    IF n > Len(positions)
    THEN rule
    ELSE Patched(Spread(rule, ValueOf(files[c[positions[n]]].overrides, id)),
                 files, c, id, positions, n + 1)

\* The last definition of id in the chain, patched by the overrides of that
\* document and of the documents after it.
ExpectedRule(files, c, id) ==
    LET last == Max(Definers(files, c, id))
    IN Patched(ValueOf(files[c[last]].rules, id), files, c, id,
               Ascending({i \in Overriders(files, c, id) : i >= last}), 1)

ConflictsOf(conflicts, id, t) ==
    SelectSeq(conflicts, LAMBDA x : x.ruleId = id /\ x.conflict.t = t)

Count(seq, x) == Cardinality({i \in 1..Len(seq) : seq[i] = x})

ResolvedOk == op = "resolveRules" /\ res.kind = "ok"

\* C4: for every id, the redefinition conflicts are one per definition after
\* the first, in chain order, each with sources [first document of the chain
\* defining the id, redefining document]; an id defined once has none; and
\* a redefinition replaces the rule wholesale: with no override at or after
\* the last definition, the merged rule is that definition itself.
C4_RedefinitionConflict ==
    ResolvedOk =>
        \A id \in RuleIds :
            LET defs == Ascending(Definers(fs, res.chain, id))
                redefs == ConflictsOf(res.conflicts, id, "redefined")
            IN /\ Len(redefs) = (IF Len(defs) = 0 THEN 0 ELSE Len(defs) - 1)
               /\ \A n \in 1..Len(redefs) :
                     /\ redefs[n].conflict =
                            Msg("redefined", res.chain[defs[n + 1]], "", "")
                     /\ redefs[n].sources =
                            <<Source(res.chain[defs[1]], FALSE),
                              Source(res.chain[defs[n + 1]], FALSE)>>
               /\ (id \in DOMAIN res.rules) = (Len(defs) > 0)
               /\ (Len(defs) > 0
                     /\ \A i \in Overriders(fs, res.chain, id) :
                            i < defs[Len(defs)]) =>
                      res.rules[id] =
                          ValueOf(fs[res.chain[defs[Len(defs)]]].rules, id)

C4_Witness ==
    /\ ResolvedOk
    /\ arg = "A"
    /\ res.chain = <<"B", "A">>
    /\ fs["B"].rules = <<Entry("r1", RuleFull)>>
    /\ fs["A"].rules = <<Entry("r1", RuleNoCategory)>>
    /\ res.rules["r1"] = RuleNoCategory
    /\ res.conflicts =
          <<[ruleId |-> "r1", conflict |-> Msg("redefined", "A", "", ""),
             sources |-> <<Source("B", FALSE), Source("A", FALSE)>>]>>

\* C5: a document that both defines an id in `rules` and lists it in
\* `overrides` never gets a dangling-override conflict for it; when it is the
\* last document of the chain to touch the id, the merged rule is its own
\* definition with its own override fields on top; and when exactly one
\* ancestor defined the id before it, one redefinition conflict is recorded.
C5_OverrideAfterOwnRules ==
    ResolvedOk =>
        \A id \in RuleIds, i \in 1..Len(res.chain) :
            LET f == res.chain[i]
                defs == Definers(fs, res.chain, id)
                ovrs == Overriders(fs, res.chain, id)
            IN (i \in defs /\ i \in ovrs) =>
                 /\ \A n \in 1..Len(res.conflicts) :
                       ~(/\ res.conflicts[n].ruleId = id
                         /\ res.conflicts[n].conflict.t = "non-existent"
                         /\ res.conflicts[n].conflict.file = f)
                 /\ (\A j \in defs \cup ovrs : j <= i) =>
                       res.rules[id] = Spread(ValueOf(fs[f].rules, id),
                                              ValueOf(fs[f].overrides, id))
                 /\ Cardinality(defs) = 2 =>
                       Len(ConflictsOf(res.conflicts, id, "redefined")) = 1

C5_Witness ==
    /\ ResolvedOk
    /\ arg = "A"
    /\ res.chain = <<"B", "A">>
    /\ fs["B"].rules = <<Entry("r1", RuleFull)>>
    /\ fs["A"].rules = <<Entry("r1", RuleNoCategory)>>
    /\ fs["A"].overrides = <<Entry("r1", PatchBlank)>>
    /\ res.rules["r1"] =
          [name |-> "", description |-> "d2", severity |-> "", enabled |-> TRUE]
    /\ Len(res.conflicts) = 1
    /\ res.conflicts[1].conflict.t = "redefined"

\* C6: the override of id by the document at position i of the chain is
\* applied exactly when id is defined at or before position i. Otherwise one
\* dangling-override conflict with sources [that document] is recorded and
\* the override leaves no trace: sources gets no "(override)" entry for it,
\* an id no document defines stays out of rules and sources, and the merged
\* rule is the last definition patched only by the overrides at or after it.
C6_DanglingOverrideSkipped ==
    ResolvedOk =>
        \A id \in RuleIds :
            LET c == res.chain
                defs == Definers(fs, c, id)
                ovrs == Overriders(fs, c, id)
                dangling == ConflictsOf(res.conflicts, id, "non-existent")
            IN /\ \A f \in Paths :
                    /\ Count(dangling,
                             [ruleId |-> id,
                              conflict |-> Msg("non-existent", f, "", ""),
                              sources |-> <<Source(f, FALSE)>>])
                         = Cardinality({i \in ovrs :
                               c[i] = f /\ ~DefinedBy(fs, c, id, i)})
                    /\ defs # {} =>
                         Count(res.sources[id], Source(f, TRUE))
                         = Cardinality({i \in ovrs :
                               c[i] = f /\ DefinedBy(fs, c, id, i)})
               /\ Len(dangling) =
                    Cardinality({i \in ovrs : ~DefinedBy(fs, c, id, i)})
               /\ defs = {} =>
                    id \notin DOMAIN res.rules /\ id \notin DOMAIN res.sources
               /\ defs # {} => res.rules[id] = ExpectedRule(fs, c, id)

C6_Witness ==
    /\ ResolvedOk
    /\ arg = "A"
    /\ res.chain = <<"B", "C", "A">>
    /\ fs["B"].overrides = <<Entry("r1", PatchDisable)>>
    /\ fs["B"].rules = <<>>
    /\ fs["C"].rules = <<Entry("r1", RuleFull)>>
    /\ res.rules["r1"] = RuleFull
    /\ res.sources["r1"] = <<Source("C", FALSE)>>
    /\ res.conflicts =
          <<[ruleId |-> "r1", conflict |-> Msg("non-existent", "B", "", ""),
             sources |-> <<Source("B", FALSE)>>]>>

ValidatedOk == op = "validateRules" /\ res.kind = "ok"

\* The merged rule of every id some document of the chain defines.
MergedIds(files, c) ==
    UNION {Keys(files[c[i]].rules) : i \in 1..Len(c)}

\* C7, as stated: validating a document whose `overrides` references an id
\* absent from all of its ancestors yields valid=false with at least one
\* error that mentions that rule id.
C7_ErrorMentionsRuleId ==
    ValidatedOk =>
        LET c == Chain(fs, arg).chain
        IN \A id \in Keys(fs[arg].overrides) :
              (\A i \in 1..(Len(c) - 1) : id \notin Keys(fs[c[i]].rules)) =>
                 /\ res.valid = FALSE
                 /\ \E n \in 1..Len(res.errors) : res.errors[n].ruleId = id

\* C7, amended: validating a document whose `overrides` references an id
\* that neither its ancestors nor the document itself define yields
\* valid=false with the error "Override for non-existent rule in <that
\* document>"; no error of the result mentions the rule id.
C7_DanglingOverrideInvalid ==
    ValidatedOk =>
        LET c == Chain(fs, arg).chain
        IN \A id \in Keys(fs[arg].overrides) :
              Definers(fs, c, id) = {} =>
                 /\ res.valid = FALSE
                 /\ \E n \in 1..Len(res.errors) :
                       res.errors[n] = Msg("non-existent", arg, "", "")
                 /\ \A n \in 1..Len(res.errors) : res.errors[n].ruleId # id

C7_Witness ==
    /\ ValidatedOk
    /\ arg = "A"
    /\ fs["A"].overrides = <<Entry("r1", PatchDisable)>>
    /\ \A p \in ReachFrom(fs, "A") : fs[p].rules = <<>>
    /\ res.valid = FALSE
    /\ res.errors = <<Msg("non-existent", "A", "", "")>>

\* C8: valid is true exactly when the error list is empty, whatever the
\* warnings; a chain with no dangling override and no merged rule with an
\* empty name, description or severity validates as valid=true with no
\* errors and exactly one "redefined" warning per redefinition.
C8_ValidIffNoErrors ==
    ValidatedOk =>
        LET c == Chain(fs, arg).chain
            ids == MergedIds(fs, c)
            redefinitions ==
                {x \in ids \X (1..Len(c)) :
                    /\ x[2] \in Definers(fs, c, x[1])
                    /\ x[2] # Min(Definers(fs, c, x[1]))}
            onlyRedefinitions ==
                /\ \A id \in RuleIds :
                      \A i \in Overriders(fs, c, id) : DefinedBy(fs, c, id, i)
                /\ \A id \in ids :
                      /\ ~IsFalsy(ExpectedRule(fs, c, id), "name")
                      /\ ~IsFalsy(ExpectedRule(fs, c, id), "description")
                      /\ ~IsFalsy(ExpectedRule(fs, c, id), "severity")
        IN /\ res.valid = (Len(res.errors) = 0)
           /\ onlyRedefinitions =>
                 /\ res.valid = TRUE
                 /\ res.errors = <<>>
                 /\ Len(res.warnings) = Cardinality(redefinitions)
                 /\ \A n \in 1..Len(res.warnings) :
                       res.warnings[n].t = "redefined"

C8_Witness ==
    /\ ValidatedOk
    /\ arg = "A"
    /\ fs["A"].extends = <<"B">>
    /\ fs["B"].rules = <<Entry("r1", RuleFull)>>
    /\ fs["A"].rules = <<Entry("r1", RuleNoCategory)>>
    /\ fs["A"].overrides = <<>>
    /\ res.valid = TRUE
    /\ res.errors = <<>>
    /\ res.warnings = <<Msg("redefined", "A", "", "")>>

\* C9, as stated: validate reports an error, and valid=false, for every
\* merged rule whose name, description or severity is empty or missing and
\* for every merged rule whose severity is not one of CRITICAL, HIGH,
\* MEDIUM, LOW.
C9_BadFieldsReported ==
    ValidatedOk =>
        LET c == Chain(fs, arg).chain
        IN \A id \in MergedIds(fs, c) :
              LET rule == ExpectedRule(fs, c, id)
              IN (\/ IsFalsy(rule, "name")
                  \/ IsFalsy(rule, "description")
                  \/ IsFalsy(rule, "severity")
                  \/ ~HasRank(rule)) =>
                     /\ res.valid = FALSE
                     /\ \E n \in 1..Len(res.errors) :
                           res.errors[n].ruleId = id

\* C9, the part validateRules does check: an empty or missing name,
\* description or severity of a merged rule is reported with the rule id and
\* the field, and makes the result invalid.
C9_EmptyFieldsReported ==
    ValidatedOk =>
        LET c == Chain(fs, arg).chain
        IN \A id \in MergedIds(fs, c) :
              \A field \in {"name", "description", "severity"} :
                 IsFalsy(ExpectedRule(fs, c, id), field) =>
                     /\ res.valid = FALSE
                     /\ \E n \in 1..Len(res.errors) :
                           res.errors[n] = Msg("missing", "", id, field)

\* The ids of the `rules` entries of the chain in the order the merge first
\* meets them.
RECURSIVE Dedupe(_, _)
Dedupe(seq, i) ==
    IF i > Len(seq)
    THEN <<>>
    ELSE (IF seq[i] \in {seq[j] : j \in 1..(i - 1)} THEN <<>> ELSE <<seq[i]>>)
         \o Dedupe(seq, i + 1)

EncounterOrder(files, c) ==
    Dedupe(Flatten([i \in 1..Len(c) |->
                      [k \in 1..Len(files[c[i]].rules) |->
                          files[c[i]].rules[k].id]], 1), 1)

Position(seq, x) == CHOOSE i \in 1..Len(seq) : seq[i] = x

ExampleSeverities ==
    /\ Len(fs["A"].rules) = 5
    /\ [k \in 1..5 |-> fs["A"].rules[k].value.severity]
         = <<"MEDIUM", "CRITICAL", "LOW", "HIGH", "CRITICAL">>
    /\ \A k \in 1..5 : fs["A"].rules[k].value.enabled = TRUE

\* C10: when every enabled merged rule carries one of the four severities,
\* getEffectiveRules returns exactly the enabled merged rules, each once, in
\* non-decreasing severity rank CRITICAL < HIGH < MEDIUM < LOW, rules of
\* equal severity in the order the merge first met them; the severities
\* [MEDIUM, CRITICAL, LOW, HIGH, CRITICAL] come back as the second, fifth,
\* fourth, first and third rule.
C10_SeverityOrderStable ==
    (op = "getEffectiveRules" /\ res.kind = "ok") =>
        LET c == Chain(fs, arg).chain
            order == EncounterOrder(fs, c)
            enabled == {id \in MergedIds(fs, c) :
                          IsEnabled(ExpectedRule(fs, c, id))}
            n == Len(res.ids)
        IN (\A id \in enabled : HasRank(ExpectedRule(fs, c, id))) =>
             /\ {res.ids[i] : i \in 1..n} = enabled
             /\ n = Cardinality(enabled)
             /\ \A i \in 1..n : res.rules[i] = ExpectedRule(fs, c, res.ids[i])
             /\ \A i, j \in 1..n :
                   i < j =>
                     /\ severityOrder(res.rules[i]) <= severityOrder(res.rules[j])
                     /\ severityOrder(res.rules[i]) = severityOrder(res.rules[j])
                          => Position(order, res.ids[i]) < Position(order, res.ids[j])
             /\ (ExampleSeverities /\ arg = "A") =>
                   res.ids = <<"s2", "s5", "s4", "s1", "s3">>

C10_Witness ==
    /\ op = "getEffectiveRules"
    /\ arg = "A"
    /\ res.kind = "ok"
    /\ ExampleSeverities
    /\ [i \in 1..Len(res.rules) |-> res.rules[i].severity]
         = <<"CRITICAL", "CRITICAL", "HIGH", "MEDIUM", "LOW">>
    /\ res.ids = <<"s2", "s5", "s4", "s1", "s3">>

\* C11: every id some document of the chain defines is in the resolved
\* `rules` and `sources`, whatever its final `enabled`; getEffectiveRules
\* returns no rule whose merged `enabled` is false (written so, or disabled by
\* an override) and returns each rule whose merged `enabled` is true exactly
\* once.
C11_DisabledExcluded ==
    /\ ResolvedOk =>
          \A id \in MergedIds(fs, res.chain) :
              /\ id \in DOMAIN res.rules
              /\ id \in DOMAIN res.sources
              /\ Len(res.sources[id]) > 0
              /\ res.rules[id].enabled = ExpectedRule(fs, res.chain, id).enabled
    /\ (op = "getEffectiveRules" /\ res.kind = "ok") =>
          LET c == Chain(fs, arg).chain
          IN \A id \in MergedIds(fs, c) :
                LET rule == ExpectedRule(fs, c, id)
                IN /\ rule.enabled = FALSE => Count(res.ids, id) = 0
                   /\ rule.enabled = TRUE => Count(res.ids, id) = 1

C11_Witness ==
    /\ op = "getEffectiveRules"
    /\ arg = "A"
    /\ res.kind = "ok"
    /\ fs["B"].rules = <<Entry("r1", RuleDisabled), Entry("r2", RuleFull)>>
    /\ fs["A"].rules = <<>>
    /\ fs["A"].overrides = <<Entry("r2", PatchDisable)>>
    /\ res.ids = <<>>

\* The documents of the end-to-end example: B is the base document with
\* critical-rule (r1), A the project document that extends it, adds proj-rule
\* (r2) and disables critical-rule by an override.
ExampleProject ==
    /\ fs["A"].kind = "doc" /\ fs["B"].kind = "doc"
    /\ fs["A"].extends = <<"B">>
    /\ fs["B"].extends = <<>>
    /\ fs["B"].rules = <<Entry("r1", RuleNoCategory)>>
    /\ fs["B"].overrides = <<>>
    /\ fs["A"].rules = <<Entry("r2", RuleFull)>>
    /\ fs["A"].overrides = <<Entry("r1", PatchDisable)>>

\* C12: on the example, getEffectiveRules of the project document returns
\* exactly [proj-rule], validateRules reports valid with no error and no
\* warning, and the merge records no conflict while keeping critical-rule,
\* disabled, in `rules`.
C12_EndToEnd ==
    (ExampleProject /\ arg = "A") =>
        /\ op = "getEffectiveRules" =>
              /\ res.kind = "ok"
              /\ res.ids = <<"r2">>
              /\ res.rules = <<RuleFull>>
        /\ op = "validateRules" =>
              /\ res.kind = "ok"
              /\ res.valid = TRUE
              /\ res.errors = <<>>
              /\ res.warnings = <<>>
        /\ op = "resolveRules" =>
              /\ res.kind = "ok"
              /\ res.conflicts = <<>>
              /\ res.rules["r1"] = [RuleNoCategory EXCEPT !.enabled = FALSE]

C12_Witness ==
    /\ ExampleProject
    /\ op = "getEffectiveRules"
    /\ arg = "A"
    /\ res.kind = "ok"
    /\ res.ids = <<"r2">>

LastN(seq, n) ==
    IF Len(seq) <= n THEN seq ELSE SubSeq(seq, Len(seq) - n + 1, Len(seq))
FirstN(seq, n) == IF Len(seq) <= n THEN seq ELSE SubSeq(seq, 1, n)

\* A step that is a call of the named export (or of the sweep): the clock
\* does not move within a call.
CallStep(name) == op' = name /\ now' = now

\* The entries lazy initialization may create at time t from the files: the
\* string projections of the effective rules of the located document, none
\* when its chain does not resolve; the empty entry when no file is located.
FreshEntries(files, t) ==
    LET rulesPath == getConstitutionalRulesPath(files)
    IN IF rulesPath = NoPath
       THEN {ConstitutionEntry(<<>>, FALSE, t)}
       ELSE {ConstitutionEntry(
                IF IsThrown(e) THEN <<>>
                ELSE [i \in 1..Len(e.rules) |-> ruleToString(e.rules[i])],
                TRUE, t) : e \in getEffectiveRules(files, rulesPath)}

\* The strings of DocTwo's rules in effective order.
DocTwoStrings ==
    <<<<"icon-critical", "undefined", "n2", "d2", "Rationale", "why",
        "Examples", "e1", "e2">>,
      <<"icon-low", "c1", "n1", "d1">>>>

\* C14, as stated: once one string more than the capacity has been appended
\* to a session, its list has exactly the capacity's length and holds the
\* appended strings but the first, in append order.
C14_AppendEvictsOldest ==
    \A s \in DOMAIN constitutionMap :
        Len(hist[s].log) = MAX_RULES_PER_SESSION + 1 =>
            /\ Len(constitutionMap[s].rules) = MAX_RULES_PER_SESSION
            /\ constitutionMap[s].rules = Tail(hist[s].log)

\* C14, for an entry created within the capacity: its list is the last
\* entries, up to the capacity, of the list it was created with followed by
\* the strings appended since.
C14_FifoWithinCapacity ==
    \A s \in DOMAIN constitutionMap :
        Len(hist[s].base) <= MAX_RULES_PER_SESSION =>
            constitutionMap[s].rules =
                LastN(hist[s].base \o hist[s].log, MAX_RULES_PER_SESSION)

\* C15, as stated: in every reachable state every session entry's list has
\* at most the capacity's number of entries.
C15_ListWithinCapacity ==
    \A s \in DOMAIN constitutionMap :
        Len(constitutionMap[s].rules) <= MAX_RULES_PER_SESSION

\* C16: while an entry exists, a get leaves its list and fileLoaded as they
\* are and returns that list, and an append only adds its string after the
\* list, or after the list without its oldest entry - whatever the files
\* have become.
C16_InitializedOnce ==
    [][\A s \in DOMAIN constitutionMap :
          /\ (CallStep("getConstitution") /\ arg' = s) =>
                /\ s \in DOMAIN constitutionMap'
                /\ constitutionMap'[s].rules = constitutionMap[s].rules
                /\ constitutionMap'[s].fileLoaded = constitutionMap[s].fileLoaded
                /\ res'.rules = constitutionMap[s].rules
          /\ (CallStep("updateConstitution") /\ arg' = s
                /\ res'.input # EmptyText) =>
                /\ s \in DOMAIN constitutionMap'
                /\ constitutionMap'[s].fileLoaded = constitutionMap[s].fileLoaded
                /\ LET new == constitutionMap'[s].rules
                   IN /\ Len(new) > 0
                      /\ new[Len(new)] = res'.input
                      /\ SubSeq(new, 1, Len(new) - 1)
                           \in {constitutionMap[s].rules,
                                SubSeq(constitutionMap[s].rules, 2,
                                       Len(constitutionMap[s].rules))}]_vars

C16_Witness ==
    /\ op = "getConstitution"
    /\ arg = "s1"
    /\ fs[RulesFileVar] = Missing
    /\ getConstitutionalRulesPath(fs) = NoPath
    /\ constitutionMap["s1"].fileLoaded = TRUE
    /\ constitutionMap["s1"].rules = DocTwoStrings \o <<Text("x")>>
    /\ res.rules = constitutionMap["s1"].rules

\* C17: a get for a session id without an entry creates the entry lazy
\* initialization makes of the files as they are - the string projections
\* of the located document's effective rules in effective order with
\* fileLoaded=true, or no rules with fileLoaded=false when no file is
\* located - with `updated` the current time, and returns its list.
C17_FirstGetSeeds ==
    [][\A s \in SessionIds :
          (s \notin DOMAIN constitutionMap
             /\ CallStep("getConstitution") /\ arg' = s) =>
                /\ s \in DOMAIN constitutionMap'
                /\ constitutionMap'[s] \in FreshEntries(fs, now)
                /\ constitutionMap'[s].updated = now
                /\ res'.rules = constitutionMap'[s].rules
                /\ fs[RulesFileVar] = DocTwo =>
                      constitutionMap'[s].rules = DocTwoStrings]_vars

C17_Witness ==
    /\ op = "getConstitution"
    /\ arg = "s1"
    /\ fs[RulesFileVar] = DocTwo
    /\ hist["s1"].base = DocTwoStrings
    /\ hist["s1"].log = <<>>
    /\ constitutionMap["s1"] = ConstitutionEntry(DocTwoStrings, TRUE, now)
    /\ res.rules = DocTwoStrings

\* C18: a reset with a session id and an array makes the entry of that id
\* exactly: the first entries of the array up to the capacity, fileLoaded
\* false, `updated` the current time - whether the id had no entry, a
\* file-loaded one or one appended to.
C18_ResetReplaces ==
    [][(CallStep("resetConstitution") /\ arg' # "" /\ res'.input.isArray) =>
          /\ arg' \in DOMAIN constitutionMap'
          /\ constitutionMap'[arg'] =
                ConstitutionEntry(
                    FirstN(res'.input.items, MAX_RULES_PER_SESSION), FALSE, now)
          /\ Len(constitutionMap'[arg'].rules) <= MAX_RULES_PER_SESSION]_vars

C18_Witness ==
    /\ op = "resetConstitution"
    /\ arg = "s1"
    /\ res.input.items = LongList
    /\ now > 0
    /\ hist["s1"].reborn = FALSE
    /\ constitutionMap["s1"] =
          ConstitutionEntry(SubSeq(LongList, 1, MAX_RULES_PER_SESSION),
                            FALSE, now)

\* C19: a sweep leaves no entry that has been idle for longer than the TTL,
\* and the get that follows for a swept id creates the entry a never-seen id
\* would get from the files as they are then.
C19_IdleExpiry ==
    [][/\ CallStep("cleanup") =>
            \A s \in DOMAIN constitutionMap :
                now - constitutionMap[s].updated > SESSION_TTL_MS =>
                    s \notin DOMAIN constitutionMap'
       /\ \A s \in SessionIds :
            (WasSwept(s) /\ CallStep("getConstitution") /\ arg' = s) =>
                /\ s \notin DOMAIN constitutionMap
                /\ constitutionMap'[s] \in FreshEntries(fs, now)
                /\ res'.rules = constitutionMap'[s].rules]_vars

C19_Witness ==
    /\ op = "getConstitution"
    /\ arg = "s1"
    /\ hist["s1"].live /\ hist["s1"].reborn
    /\ hist["s1"].log = <<>>
    /\ fs[RulesFileVar] = DocTwo
    /\ constitutionMap["s1"] = ConstitutionEntry(DocTwoStrings, TRUE, now)

\* C20: an entry disappears only in a sweep and only when it has been idle
\* for longer than the TTL; a sweep removes every such entry, leaves the
\* others as they are and creates none; a get, an append and a reset that
\* act on a session set its `updated` to the current time.
C20_OnlySweepDeletes ==
    [][/\ \A s \in DOMAIN constitutionMap :
            s \notin DOMAIN constitutionMap' =>
                /\ CallStep("cleanup")
                /\ now - constitutionMap[s].updated > SESSION_TTL_MS
       /\ CallStep("cleanup") =>
            /\ DOMAIN constitutionMap' \subseteq DOMAIN constitutionMap
            /\ \A s \in DOMAIN constitutionMap :
                  IF now - constitutionMap[s].updated > SESSION_TTL_MS
                  THEN s \notin DOMAIN constitutionMap'
                  ELSE /\ s \in DOMAIN constitutionMap'
                       /\ constitutionMap'[s] = constitutionMap[s]
       /\ (/\ arg' \in SessionIds
           /\ \/ CallStep("getConstitution")
              \/ CallStep("updateConstitution") /\ res'.input # EmptyText
              \/ CallStep("resetConstitution") /\ res'.input.isArray) =>
            /\ arg' \in DOMAIN constitutionMap'
            /\ constitutionMap'[arg'].updated = now]_vars

C20_Witness ==
    /\ op = "cleanup"
    /\ WasSwept("s1")
    /\ "s1" \notin DOMAIN constitutionMap
    /\ "s2" \in DOMAIN constitutionMap
    /\ now - constitutionMap["s2"].updated = SESSION_TTL_MS

\* ------------------------------------------- the store and broken chains
\* Whether a rules file is located whose chain does not resolve.
ChainFails(files) ==
    /\ getConstitutionalRulesPath(files) # NoPath
    /\ IsThrown(resolveRules(files, getConstitutionalRulesPath(files)))

C22_SeededOnlyWhenValid ==
    [][\A s \in SessionIds :
          (/\ CallStep("getConstitution") \/ CallStep("updateConstitution")
           /\ s \notin DOMAIN constitutionMap
           /\ s \in DOMAIN constitutionMap'
           /\ hist'[s].base # <<>>) =>
              LET v == validateRules(fs, getConstitutionalRulesPath(fs))
              IN ~IsThrown(v) /\ v.valid]_vars

\* ------------------------------------------------------ the watcher, read
\* C23: change notifications are debounced. At most one timeout is pending
\* and it is due the debounce delay after the last notification; a reload
\* runs only when that delay has passed since the last notification and
\* leaves no timeout pending; and every burst of notifications has had
\* exactly one run of reload once its timeout has run, none when stop()
\* cancelled the timeout.
C23_Debounced ==
    [][/\ Cardinality(watch'.timers) <= 1
       /\ watch'.timers # {} =>
             watch'.timers = {seen'.lastNote + DebounceMs}
       /\ seen'.attempts + seen'.cancelled + Cardinality(watch'.timers)
             = seen'.bursts
       /\ seen'.attempts > seen.attempts =>
             /\ seen'.attempts = seen.attempts + 1
             /\ now >= seen.lastNote + DebounceMs
             /\ watch'.timers = {}]_vars

\* A burst of two notifications, one reload at the end of the delay.
C23_Witness ==
    /\ op = "reload"
    /\ seen.notes = 2
    /\ seen.bursts = 1
    /\ seen.attempts = 1
    /\ seen.cancelled = 0
    /\ seen.lastNote > 0
    /\ now = seen.lastNote + DebounceMs
    /\ watch.timers = {}

\* A step that is a run of reload() past its first test.
ReloadStep == op' = "reload" /\ seen'.attempts > seen.attempts
                 /\ res'.kind # "return"

\* Whether validateRules rejects the chain of the watched root document, by
\* its answer or by an exception.
ChainRejected(files, rulesPath) ==
    LET v == validateRules(files, rulesPath)
    IN IsThrown(v) \/ ~v.valid

\* C24: a reload that finds the chain of the root document invalid or
\* unresolvable ends in the error callback and in nothing else: no success
\* callback, every session entry and every file as before, the watchers
\* still open on the same paths, and isReloading false again, so that a later
\* notification starts a reload.
C24_FailedReloadKeepsState ==
    [][(ReloadStep /\ ChainRejected(fs, watch.currentRulesPath)) =>
          /\ res'.kind = "onError"
          /\ constitutionMap' = constitutionMap
          /\ hist' = hist
          /\ fs' = fs
          /\ ~watch'.isReloading
          /\ watch'.watcher = watch.watcher
          /\ watch'.parents = watch.parents
          /\ watch'.currentRulesPath = watch.currentRulesPath]_vars

\* The second reload of a watcher fails on a document that validation
\* rejects while a session holds the rules of the document before it.
C24_Witness ==
    /\ op = "reload"
    /\ res.kind = "onError"
    /\ seen.attempts = 2
    /\ watch.currentRulesPath = RulesFileVar
    /\ fs[RulesFileVar] = DocUnchecked
    /\ "s1" \in DOMAIN constitutionMap
    /\ constitutionMap["s1"].rules = DocTwoStrings
    /\ ~watch.isReloading

\* C25, as stated: the get that follows a reload that found the chain valid
\* gives the session - also one that had an entry before the reload - the
\* entry lazy initialization makes of the files as they are.
C25_ReloadReseeds ==
    [][(op = "reload" /\ res.kind = "onReload"
          /\ CallStep("getConstitution")) =>
             constitutionMap'[arg'] \in FreshEntries(fs, now)]_vars

C27_ChainChangeSchedules ==
    [][(/\ op' = "change"
        /\ edits' = edits + 1
        /\ watch.watcher # NoPath
        /\ LET c == Chain(fs, watch.currentRulesPath)
           IN ~IsThrown(c) /\ arg' \in Range(c.chain)) =>
             /\ seen'.notes = seen.notes + 1
             /\ watch'.timers = {now + DebounceMs}]_vars

\* C28, as stated: for every extends graph start() ends its walk over the
\* inheritance chain after finitely many documents - it puts at most one
\* watcher on a document and never runs out of stack - and returns.
C28_StartWalkEnds ==
    op = "start" =>
        /\ res.value \in BOOLEAN
        /\ ~res.overflow
        /\ \A i, j \in 1..Len(watch.parents) :
              watch.parents[i] = watch.parents[j] => i = j

\* ------------------------------------------------- the root file, located
\* The candidates of a call without a config, in the order of precedence:
\* the file of the override variable when it is set, the file of the storage
\* directory when that is set, the file of the home directory.
Candidates(env) ==
    (IF env.VIBE_CHECK_RULES_FILE # Unset
     THEN <<env.VIBE_CHECK_RULES_FILE>> ELSE <<>>)
    \o (IF env.VIBE_CHECK_STORAGE_DIR # Unset
        THEN <<RulesFileIn[env.VIBE_CHECK_STORAGE_DIR]>> ELSE <<>>)
    \o <<HomeDirFile>>

\* C29: a call without a config returns the first candidate whose file
\* exists - override variable, then storage directory, then home directory -
\* skipping every candidate that is not configured or whose file does not
\* exist, and null when no candidate's file exists.
C29_PathPrecedence ==
    (op = "getConstitutionalRulesPath" /\ arg.config = NoConfig) =>
        LET cands == Candidates(arg.env)
            existing == {i \in 1..Len(cands) : Exists(fs, cands[i])}
        IN res.value = IF existing = {} THEN NoPath
                       ELSE cands[Min(existing)]

\* The override variable names a file that does not exist and the storage
\* directory's file is returned although the home directory's exists too.
C29_Witness ==
    /\ op = "getConstitutionalRulesPath"
    /\ arg.config = NoConfig
    /\ arg.env = ProcessEnv
    /\ ~Exists(fs, RulesFileVar)
    /\ Exists(fs, StorageDirFile)
    /\ Exists(fs, HomeDirFile)
    /\ res.value = StorageDirFile

\* ------------------------------------------------------ the CLI, read
\* Whether a chain has a structural failure or a validation error: its root
\* is missing or no JSON, its chain does not resolve, or validateRules
\* reports an error.
Fails(files, rulesPath) ==
    \/ ~Exists(files, rulesPath)
    \/ files[rulesPath].kind = "invalid"
    \/ IsThrown(validateRules(files, rulesPath))
    \/ Len(validateRules(files, rulesPath).errors) > 0

\* C30: the validate command exits with 0 when the result is valid and with
\* 1 when it is not; with 1 when the file given with --rules is missing,
\* when the root document is no JSON, when its chain does not resolve (a
\* missing parent, a circular extends) and when validateRules reports an
\* error; and never with 0 while the error list it prints has an entry.
C30_ExitCode ==
    op = "validate" =>
        LET rulesPath == IF arg # Unset THEN arg
                         ELSE getConstitutionalRulesPath(fs)
        IN /\ res.code = 0 <=> res.result.valid
           /\ res.code = 1 <=> ~res.result.valid
           /\ Len(res.result.errors) > 0 => res.code = 1
           /\ (rulesPath # NoPath /\ Fails(fs, rulesPath)) => res.code = 1

\* The command run on a root document whose parent extends it back.
C30_Witness ==
    /\ op = "validate"
    /\ arg = Unset
    /\ fs[RulesFileVar] = DocChild
    /\ fs[StorageDirFile] = DocLoop
    /\ Chain(fs, RulesFileVar).kind = "cycle"
    /\ res.code = 1
    /\ ~res.result.valid
    /\ Len(res.result.errors) = 1

\* The root document the validate command of the last step has read, NoPath
\* when it has read none.
ValidatedPath ==
    IF arg # Unset THEN arg ELSE getConstitutionalRulesPath(fs)

\* C31: the inheritance chain the validate command reports for a rules file
\* whose chain resolves is the resolved chain of that file: every document
\* of the chain, base first, also a document that only overrides or has no
\* rule at all.
C31_ReportedChain ==
    (/\ op = "validate"
     /\ ValidatedPath # NoPath
     /\ ~Fails(fs, ValidatedPath))
    => res.result.inheritanceChain = Chain(fs, ValidatedPath).chain

\* The entries position i of chain c adds to sources[id]: the document when
\* it defines id, then the document tagged "(override)" when it overrides id
\* and id is defined by then.
SourcesAt(files, c, id, i) ==
    (IF i \in Definers(files, c, id) THEN <<[file |-> c[i], override |-> FALSE]>> ELSE <<>>)
    \o (IF i \in Overriders(files, c, id) /\ DefinedBy(files, c, id, i)
        THEN <<[file |-> c[i], override |-> TRUE]>> ELSE <<>>)

ExpectedSources(files, c, id) ==
    Flatten([i \in 1..Len(c) |-> SourcesAt(files, c, id, i)], 1)

\* C32: in a resolved rule set `sources` and `rules` have the same ids; for
\* each id sources[id] is non-empty, starts with the first document of the
\* chain that defines the id, and lists, in chain order, every document that
\* defines the id and, tagged "(override)", every document whose override of
\* the id was applied, and nothing else; an override of an id no document
\* has defined by then adds no entry.
C32_SourcesMatchRules ==
    ResolvedOk =>
        /\ DOMAIN res.sources = DOMAIN res.rules
        /\ \A id \in DOMAIN res.sources :
              /\ Len(res.sources[id]) > 0
              /\ res.sources[id][1] =
                     [file |-> res.chain[Min(Definers(fs, res.chain, id))],
                      override |-> FALSE]
              /\ res.sources[id] = ExpectedSources(fs, res.chain, id)
        /\ \A id \in RuleIds :
              Definers(fs, res.chain, id) = {} => id \notin DOMAIN res.sources

\* A rule a parent defines and the root overrides, next to a rule the root
\* overrides and no document defines: the first has the parent and the
\* tagged root as its sources, the second has no sources.
C32_Witness ==
    /\ ResolvedOk
    /\ \E id \in DOMAIN res.sources :
          /\ Len(res.sources[id]) = 2
          /\ ~res.sources[id][1].override
          /\ res.sources[id][2] = [file |-> "A", override |-> TRUE]
    /\ \E id \in RuleIds :
          /\ id \notin DOMAIN res.sources
          /\ id \in Keys(fs["A"].overrides)

\* ------------------------------------------ two parents, one ancestor, read
\* C33: no path is twice in a resolved chain, also not the ancestor two
\* parents share; and the two sources of a redefinition conflict are two
\* different documents.
C33_EachPathOnce ==
    /\ (ChainCall /\ res.kind = "ok") =>
          \A p \in Paths : Count(res.chain, p) <= 1
    /\ ResolvedOk =>
          \A n \in 1..Len(res.conflicts) :
             res.conflicts[n].conflict.t = "redefined" =>
                res.conflicts[n].sources[1].file
                    # res.conflicts[n].sources[2].file

\* Whether document p defines id or lists it in its overrides.
Touches(files, p, id) ==
    id \in Keys(files[p].rules) \/ id \in Keys(files[p].overrides)

\* C34: when B changes a rule of its ancestor D (defines it again or
\* overrides it) and neither the later sibling C nor the descendant A
\* defines or overrides the rule, the merged rule of A is D's rule as B has
\* changed it, also when C extends D too.
C34_ChangeSurvives ==
    (ResolvedOk /\ arg = "A") =>
        \A id \in Keys(fs["D"].rules) :
           (/\ Touches(fs, "B", id)
            /\ ~Touches(fs, "C", id)
            /\ ~Touches(fs, "A", id))
           => res.rules[id] = ExpectedRule(fs, <<"D", "B">>, id)

\* --------------------------------------------------- the sessions, read
StoreExports == {"getConstitution", "updateConstitution", "resetConstitution"}

\* C35: a get, an append or a reset of one session id leaves every other
\* session id as it was: without an entry, or with the same list, the same
\* fileLoaded and the same `updated`; so an append to one of two sessions
\* that were seeded from the same files does not reach the list of the
\* other.
C35_SessionsIsolated ==
    [][\A s \in SessionIds :
          (op' \in StoreExports /\ now' = now /\ arg' # s) =>
             /\ s \in DOMAIN constitutionMap' <=> s \in DOMAIN constitutionMap
             /\ s \in DOMAIN constitutionMap =>
                   constitutionMap'[s] = constitutionMap[s]]_vars

\* Two sessions seeded from the same files, one string appended to the
\* first: the second still has the list of the files.
C35_Witness ==
    /\ op = "updateConstitution"
    /\ arg = "s1"
    /\ DOMAIN constitutionMap = {"s1", "s2"}
    /\ constitutionMap["s1"].fileLoaded
    /\ constitutionMap["s2"].fileLoaded
    /\ hist["s1"].base = DocTwoStrings
    /\ hist["s2"].base = DocTwoStrings
    /\ hist["s1"].log = <<Text("x")>>
    /\ hist["s2"].log = <<>>
    /\ constitutionMap["s1"].rules = Append(DocTwoStrings, Text("x"))
    /\ constitutionMap["s2"].rules = DocTwoStrings

\* C36: an entry has fileLoaded=true exactly when it was created on first
\* access with a rules file located and has not been reset since; an append
\* leaves the fileLoaded of an entry as it is; and an append with an empty
\* session id or an empty rule string leaves the store as it is.
C36_FileLoadedFlag ==
    /\ [](\A s \in DOMAIN constitutionMap :
             constitutionMap[s].fileLoaded <=> hist[s].origin = "located")
    /\ [][CallStep("updateConstitution") =>
             /\ \A s \in DOMAIN constitutionMap :
                   /\ s \in DOMAIN constitutionMap'
                   /\ constitutionMap'[s].fileLoaded
                          = constitutionMap[s].fileLoaded
             /\ (arg' = "" \/ res'.input = EmptyText) =>
                   constitutionMap' = constitutionMap]_vars

\* An entry created on first access while the located file was no JSON, and
\* appended to since: it holds the appended string only and is fileLoaded.
C36_Witness ==
    /\ op = "updateConstitution"
    /\ arg = "s1"
    /\ "s1" \in DOMAIN constitutionMap
    /\ hist["s1"].origin = "located"
    /\ hist["s1"].base = <<>>
    /\ Len(hist["s1"].log) > 0
    /\ constitutionMap["s1"].fileLoaded
    /\ constitutionMap["s1"].rules = hist["s1"].log

\* ------------------------------------------------- the watcher, stopped
\* start() has been called and the watcher on the root document is closed
\* or was never opened: stop() has returned, or start() found no file.
Stopped == seen.starts > 0 /\ watch.watcher = NoPath

\* C37: once stop() has returned no timeout of a reload is pending, and from
\* then on no change to a file schedules a reload and no reload attempt
\* runs.
C37_NoReloadAfterStop ==
    /\ [](Stopped => watch.timers = {})
    /\ [][Stopped => /\ seen'.attempts = seen.attempts
                     /\ seen'.notes = seen.notes]_vars

\* ------------------------------------------------ the loader's check, read
\* C38: the check of the rules-loading module answers valid=false, with an
\* error message, when a rules file is located and its chain does not
\* resolve (no JSON, a missing parent, a circular extends), and answers
\* valid=true only when a file is located and loads without an error.
C38_LoaderCheck ==
    op = "validateConstitutionalRules" =>
        /\ ChainFails(fs) =>
              /\ ~res.result.valid
              /\ res.result.errorMessage.t # "undefined"
        /\ res.result.valid =>
              /\ getConstitutionalRulesPath(fs) # NoPath
              /\ ~ChainFails(fs)

\* ------------------------------------------------------ the history, read
\* C39: a session's history holds at most ten entries, the latest ones in
\* the order they were added; and once no write of a save is in flight any
\* more, the history file holds the history as it is in memory.
C39_HistorySaved ==
    /\ \A s \in DOMAIN state.history :
          LET h == state.history[s]
          IN /\ Len(h) <= HistoryLimit
             /\ \A i \in 1..Len(h) : h[i] = Added(state, s) - Len(h) + i
             /\ Added(state, s) > HistoryLimit => Len(h) = HistoryLimit
    /\ (state.started > 0 /\ state.writes = {}) =>
          state.file = stringify(state.history)

====
